---------------------------- MODULE Spec2Model ----------------------------
(***************************************************************************)
(* Model of the Bollinger-Band / Heikin-Ashi signal engine and of its      *)
(* backtest simulator (signals.py, indicators.py, backtesting.py, main.py).*)
(*                                                                         *)
(* Prices are real numbers in the program.  They are modelled as exact     *)
(* rationals [n, d] in lowest terms, so every comparison the code makes    *)
(* (colour, band touch, body size, profit) is decided exactly.  A band     *)
(* m +/- k*std is irrational in general: a band row keeps the rolling mean  *)
(* and the rolling sample variance, and a comparison with the band is      *)
(* decided by comparing squares.                                           *)
(*                                                                         *)
(* Row positions are 0-based as in the code: row i of a frame df is        *)
(* df[i + 1], and the index label (timestamp) of row i is i.               *)
(***************************************************************************)
EXTENDS Integers, Sequences, FiniteSets, TLC

VARIABLES
    df,             \* the instrument's candle frame handed to the engine
    pc,             \* position of backtest_multiple_pairs / backtest_single_pair
    i,              \* loop index of backtest_single_pair
    signal_type,    \* local of backtest_single_pair: last evaluated signal
    capital,        \* Backtester.capital
    position,       \* Backtester.position
    position_size,  \* Backtester.position_size
    entry_price,    \* Backtester.entry_price
    trades,         \* Backtester.trades
    results,        \* return value of backtest_single_pair
    all_results,    \* return value of backtest_multiple_pairs
    signals,        \* return value of signals.scan_multiple_pairs
    bot_result,     \* return value of TradingBot.scan_pair
    error_log,      \* messages written with logger.error
    pandas_apply_empty, \* what DataFrame.apply(f, axis=1) of the installed pandas
                        \* returns for a frame without rows: "frame" or "series"
    backtest_result,    \* outcome of backtest.py's Backtester.backtest_pair
    applied,            \* outcome of one indicator function applied to df
    other,              \* a second backtest_multiple_pairs call on the same
                        \* Backtester, for a second instrument: its frame,
                        \* position, locals and return values
    fleet               \* a scan of both instruments: the return values of
                        \* fetch_multiple_pairs, scan_multiple_pairs and
                        \* TradingBot.scan_all_pairs

vars == <<df, pc, i, signal_type, capital, position, position_size,
          entry_price, trades, results, all_results, signals, bot_result,
          error_log, pandas_apply_empty, backtest_result, applied, other,
          fleet>>

(* Outcomes of the tools around the engine *)
tool_results == <<backtest_result, applied, other, fleet>>

ledger == <<capital, position, position_size, entry_price, trades>>

-----------------------------------------------------------------------------
(* Program constants *)

MIN_INDICATOR_PERIODS == 30
period == 20
std_dev == 2
min_body_size == 30
initial_capital == 10000
BB_PERIOD == 20
BB_STD == 2
MIN_BODY_SIZE_PERCENT == 30

(* Bound of the model: number of freely chosen candles at the end of a frame *)
MaxTail == 4

None == "None"
symbol == "BTC/USDT"

-----------------------------------------------------------------------------
(* Exact rational arithmetic *)

Abs(x) == IF x < 0 THEN -x ELSE x

RECURSIVE GCD(_, _)
GCD(a, b) == IF b = 0 THEN a ELSE GCD(b, a % b)

QReduce(n, d, g) == [n |-> n \div g, d |-> d \div g]

(* n / d in lowest terms with a positive denominator *)
QNorm(n, d) ==
    IF d < 0 THEN QReduce(-n, -d, GCD(Abs(n), Abs(d)))
    ELSE QReduce(n, d, GCD(Abs(n), Abs(d)))

QInt(k) == [n |-> k, d |-> 1]
QAdd(a, b) == QNorm(a.n * b.d + b.n * a.d, a.d * b.d)
QSub(a, b) == QNorm(a.n * b.d - b.n * a.d, a.d * b.d)
QMulReduced(x, y) == QNorm(x.n * y.n, x.d * y.d)
QMul(a, b) == QMulReduced(QNorm(a.n, b.d), QNorm(b.n, a.d))
QDiv(a, b) == QMul(a, QNorm(b.d, b.n))
(* (a + b) / 2 *)
QMean2(a, b) == QNorm(a.n * b.d + b.n * a.d, 2 * a.d * b.d)
QAbs(a) == [n |-> Abs(a.n), d |-> a.d]

(* a <= b for non-negative a, b, by the Euclidean expansion (no products) *)
RECURSIVE QLePos(_, _)
QLePos(a, b) ==
    LET fa == a.n \div a.d
        fb == b.n \div b.d
        ra == a.n % a.d
        rb == b.n % b.d
    IN  IF fa # fb THEN fa < fb
        ELSE IF ra = 0 THEN TRUE
        ELSE IF rb = 0 THEN FALSE
        ELSE QLePos([n |-> b.d, d |-> rb], [n |-> a.d, d |-> ra])

QLe(a, b) ==
    IF a.n <= 0 /\ b.n >= 0 THEN TRUE
    ELSE IF a.n > 0 /\ b.n <= 0 THEN FALSE
    ELSE IF a.n > 0 THEN QLePos(a, b)
    ELSE QLePos(QAbs(b), QAbs(a))
QLt(a, b) == ~QLe(b, a)
QGe(a, b) == QLe(b, a)
QGt(a, b) == ~QLe(a, b)
QMax(a, b) == IF QLe(a, b) THEN b ELSE a
QMin(a, b) == IF QLe(a, b) THEN a ELSE b
Q0 == QInt(0)


-----------------------------------------------------------------------------
(* Candle frames *)

(* A frame is a record of columns, each a sequence with one cell per row.   *)
(* The pseudo-column numeric marks the rows whose price cells hold numbers: *)
(* numeric[k] = FALSE stands for a row with a cell such as the string       *)
(* "n/a", on which the arithmetic of the indicators raises.                 *)
Candle(o, h, l, c) == [open |-> o, high |-> h, low |-> l, close |-> c, numeric |-> TRUE]

FlatCandle == Candle(104, 104, 104, 104)
DropCandle == Candle(124, 124, 100, 100)
RiseCandle == Candle(100, 110, 100, 110)
WickCandle == Candle(96, 112, 96, 96)
MalformedCandle == [open |-> 104, high |-> 104, low |-> 104, close |-> 104, numeric |-> FALSE]

Alphabet == {DropCandle, RiseCandle, WickCandle, MalformedCandle}

RawColumns == {"open", "high", "low", "close", "numeric"}

(* The frame whose rows are the candles of the sequence rows *)
FrameOf(rows) == [c \in RawColumns |-> [k \in 1..Len(rows) |-> rows[k][c]] \o <<>>]

Flat(n) == [k \in 1..n |-> FlatCandle]

(* Lengths of the quiet history that precedes the freely chosen candles *)
HistoryLens == {0, period - 2, MIN_INDICATOR_PERIODS - 1, MIN_INDICATOR_PERIODS}

Tails == UNION {[1..t -> Alphabet] : t \in 0..MaxTail}

Inputs == {FrameOf(Flat(n) \o tail) : n \in HistoryLens, tail \in Tails}

(* len(df) *)
FLen(f) == Len(f.close)

(* df.iloc[k] for a 0-based position k *)
Row(f, k) == [c \in DOMAIN f |-> f[c][k + 1]]

AllNumeric(f) == \A k \in 1..FLen(f) : f.numeric[k]

-----------------------------------------------------------------------------
(* indicators.py *)

(* A real number m + sign * sqrt(r2), or NaN: the shape of a band value *)
NaN == [nan |-> TRUE, m |-> Q0, r2 |-> Q0, sign |-> 0]
Surd(m, r2, sign) == [nan |-> FALSE, m |-> m, r2 |-> r2, sign |-> sign]

(* e + sign * sqrt(r2) >= 0 *)
SurdNonNeg(e, r2, sign) ==
    IF sign > 0 THEN e.n >= 0 \/ QLe(QMul(e, e), r2)
    ELSE IF sign < 0 THEN e.n >= 0 /\ QLe(r2, QMul(e, e))
    ELSE e.n >= 0

(* x <= b and x >= b for a rational x and a band value b; False on NaN *)
LeBand(x, b) == ~b.nan /\ SurdNonNeg(QSub(b.m, x), b.r2, b.sign)
GeBand(x, b) == ~b.nan /\ SurdNonNeg(QSub(x, b.m), b.r2, -b.sign)

RECURSIVE SumCol(_, _, _)
SumCol(col, lo, hi) == IF lo > hi THEN 0 ELSE col[hi + 1] + SumCol(col, lo, hi - 1)
RECURSIVE SumSqCol(_, _, _)
SumSqCol(col, lo, hi) ==
    IF lo > hi THEN 0 ELSE col[hi + 1] * col[hi + 1] + SumSqCol(col, lo, hi - 1)

(* The mean of all rows up to row k *)
ExpandingMean(col, k, window) == QNorm(SumCol(col, 0, k), k + 1)

(* col.rolling(window).mean() at the 0-based row k >= window - 1 *)
RollingMean(col, k, window) == QNorm(SumCol(col, k - window + 1, k), window)

(* the square of col.rolling(window).std() (sample deviation) at row k *)
SampleVar(s, q, window) == QNorm(window * q - s * s, window * (window - 1))
RollingVar(col, k, window) ==
    SampleVar(SumCol(col, k - window + 1, k), SumSqCol(col, k - window + 1, k), window)

(* The three band columns for a window and a deviation multiplier; the     *)
(* sample deviation of a window of one row is NaN                          *)
BandColumns(close, window, mult) ==
    LET n == Len(close)
        Band(k, sign) ==
            IF k < window - 1 THEN NaN
            ELSE IF window = 1 /\ sign # 0 THEN NaN
            ELSE Surd(RollingMean(close, k, window),
                      IF sign = 0 THEN Q0
                      ELSE QMul(QInt(mult * mult), RollingVar(close, k, window)),
                      sign)
    IN  [MIDDLE |-> [k \in 1..n |-> Band(k - 1, 0)],
         UPPER |-> [k \in 1..n |-> Band(k - 1, 1)],
         LOWER |-> [k \in 1..n |-> Band(k - 1, -1)]]

(* calculate_bollinger_bands(df, period=window, std_dev=mult) *)
BollingerBands(f, window, mult) ==
    LET b == BandColumns(f.close, window, mult)
    IN  [BB_MIDDLE |-> b.MIDDLE, BB_UPPER |-> b.UPPER, BB_LOWER |-> b.LOWER] @@ f

calculate_bollinger_bands(f) == BollingerBands(f, period, std_dev)

(* (open + high + low + close) / 4, row by row *)
HACloseColumn(f) ==
    [k \in 1..FLen(f) |-> QNorm(f.open[k] + f.high[k] + f.low[k] + f.close[k], 4)]

(* A loop that seeds HA_OPEN from the last row of the frame *)
RECURSIVE HAOpenLoopSeededFromLastRow(_, _, _)
HAOpenLoopSeededFromLastRow(f, hc, acc) ==
    LET k == Len(acc)
    IN  IF k = FLen(f) THEN acc
        ELSE HAOpenLoopSeededFromLastRow(f, hc,
                 Append(acc, IF k = 0
                             THEN QNorm(f.open[FLen(f)] + f.close[FLen(f)], 2)
                             ELSE QMean2(acc[k], hc[k])))

(* The loop that fills HA_OPEN: acc holds the cells of the rows done so far *)
RECURSIVE HAOpenLoop(_, _, _)
HAOpenLoop(f, hc, acc) ==
    LET k == Len(acc)
    IN  IF k = FLen(f) THEN acc
        ELSE HAOpenLoop(f, hc,
                 Append(acc, IF k = 0
                             THEN QNorm(f.open[1] + f.close[1], 2)
                             ELSE QMean2(acc[k], hc[k])))

(* A ha_high column that keeps the raw high on every row *)
RawHighColumn(f, ho, hc) == [k \in 1..FLen(f) |-> QInt(f.high[k])]

HAHighColumn(f, ho, hc) ==
    [k \in 1..FLen(f) |-> QMax(QInt(f.high[k]), QMax(ho[k], hc[k]))]
HALowColumn(f, ho, hc) ==
    [k \in 1..FLen(f) |-> QMin(QInt(f.low[k]), QMin(ho[k], hc[k]))]

(* The frame with the four columns added, given HA_CLOSE and HA_OPEN *)
HeikinAshiColumns(f, hc, ho) ==
    [HA_CLOSE |-> hc, HA_OPEN |-> ho,
     HA_HIGH |-> HAHighColumn(f, ho, hc),
     HA_LOW |-> HALowColumn(f, ho, hc)] @@ f

calculate_heikin_ashi(f) ==
    HeikinAshiColumns(f, HACloseColumn(f), HAOpenLoop(f, HACloseColumn(f), <<>>))

get_ha_candle_color(row) == IF QGt(row["HA_CLOSE"], row["HA_OPEN"]) THEN "green" ELSE "red"

(* A body size that keeps the sign of ha_close - ha_open *)
calculate_ha_body_size_percentage_signed(row) ==
    LET total_range == QSub(row["HA_HIGH"], row["HA_LOW"])
    IN  IF total_range = Q0 THEN Q0
        ELSE QMul(QDiv(QSub(row["HA_CLOSE"], row["HA_OPEN"]), total_range), QInt(100))

calculate_ha_body_size_percentage(row) ==
    LET total_range == QSub(row["HA_HIGH"], row["HA_LOW"])
    IN  IF total_range = Q0 THEN Q0
        ELSE QMul(QDiv(QAbs(QSub(row["HA_CLOSE"], row["HA_OPEN"])), total_range), QInt(100))

-----------------------------------------------------------------------------
(* signals.py *)

check_bb_touch(row, band_type) ==
    IF band_type = "lower" THEN LeBand(row["HA_LOW"], row["BB_LOWER"])
    ELSE GeBand(row["HA_HIGH"], row["BB_UPPER"])

NoDetails == [signal |-> None]
Raise(e) == [raised |-> TRUE, exception |-> e, signal_type |-> None,
             signal_details |-> NoDetails]
Return(s, details) == [raised |-> FALSE, exception |-> None, signal_type |-> s,
                       signal_details |-> details]

(* The frame with the colour and body size columns added by df.apply *)
SignalColumns(f) ==
    [HA_COLOR |-> [k \in 1..FLen(f) |-> get_ha_candle_color(Row(f, k - 1))],
     HA_BODY_SIZE |->
         [k \in 1..FLen(f) |-> calculate_ha_body_size_percentage(Row(f, k - 1))]] @@ f

(* The frame of generate_signals after the indicator and apply lines *)
SignalFrame(d) == SignalColumns(calculate_heikin_ashi(calculate_bollinger_bands(d)))

(* The buy and sell checks of generate_signals on the last two rows *)
CheckLastPair(prev_candle, current_candle, mbs, timestamp) ==
    IF /\ prev_candle["HA_COLOR"] = "red"
       /\ check_bb_touch(prev_candle, "lower")
       /\ current_candle["HA_COLOR"] = "green"
       /\ QGe(current_candle["HA_BODY_SIZE"], QInt(mbs))
    THEN Return("BUY", [signal |-> "BUY",
                        prev_candle_low |-> prev_candle["HA_LOW"],
                        bb_lower |-> prev_candle["BB_LOWER"],
                        current_body_size |-> current_candle["HA_BODY_SIZE"],
                        timestamp |-> timestamp])
    ELSE IF /\ prev_candle["HA_COLOR"] = "green"
            /\ check_bb_touch(prev_candle, "upper")
            /\ current_candle["HA_COLOR"] = "red"
            /\ QGe(current_candle["HA_BODY_SIZE"], QInt(mbs))
    THEN Return("SELL", [signal |-> "SELL",
                         prev_candle_high |-> prev_candle["HA_HIGH"],
                         bb_upper |-> prev_candle["BB_UPPER"],
                         current_body_size |-> current_candle["HA_BODY_SIZE"],
                         timestamp |-> timestamp])
    ELSE Return(None, NoDetails)

(* df.iloc[-2], df.iloc[-1] and the checks on them *)
CheckFrame(f, mbs) ==
    CheckLastPair(Row(f, FLen(f) - 2), Row(f, FLen(f) - 1), mbs, FLen(f) - 1)

(* The arithmetic on a non-numeric cell raises.  On a frame without rows    *)
(* df.apply(axis=1) returns, depending on the pandas installed, a frame or  *)
(* an empty series; assigning a frame to the single column HA_COLOR raises, *)
(* before the length check is reached.                                      *)
generate_signals(d, mbs) ==
    IF ~AllNumeric(d) THEN Raise("TypeError")
    ELSE IF FLen(d) = 0 /\ pandas_apply_empty = "frame" THEN Raise("ValueError")
    ELSE IF FLen(d) < 2 THEN Return(None, NoDetails)
    ELSE CheckFrame(SignalFrame(d), mbs)

-----------------------------------------------------------------------------
(* backtesting.py: class Backtester *)

(* The fields of the Backtester object in the current state *)
Self == [capital |-> capital, position |-> position, position_size |-> position_size,
         entry_price |-> entry_price, trades |-> trades]

(* Backtester.__init__ and the reset at the top of backtest_single_pair *)
Fresh == [capital |-> QInt(initial_capital), position |-> None, position_size |-> Q0,
          entry_price |-> Q0, trades |-> <<>>]

(* A slice that keeps the whole frame, later candles included *)
SliceWholeFrame(d, k) == d

(* df.iloc[:i+1].copy() *)
Slice(d, k) == [c \in DOMAIN d |-> SubSeq(d[c], 1, k + 1)]

(* An entry that moves the capital into the position *)
EnterLongSpendsCapital(s, current_price, current_time) ==
    LET size == QDiv(s.capital, current_price)
    IN  [s EXCEPT !.position = "long",
                  !.entry_price = current_price,
                  !.position_size = size,
                  !.capital = Q0,
                  !.trades = Append(@, [type |-> "ENTRY_LONG",
                                        timestamp |-> current_time,
                                        price |-> current_price,
                                        size |-> size])]

(* Enter long position *)
EnterLong(s, current_price, current_time) ==
    LET size == QDiv(s.capital, current_price)
    IN  [s EXCEPT !.position = "long",
                  !.entry_price = current_price,
                  !.position_size = size,
                  !.trades = Append(@, [type |-> "ENTRY_LONG",
                                        timestamp |-> current_time,
                                        price |-> current_price,
                                        size |-> size])]

(* An exit that adds the proceeds to the capital *)
ExitLongAddsProceeds(s, current_price, current_time) ==
    LET exit_value == QMul(s.position_size, current_price)
        profit == QSub(exit_value, s.capital)
    IN  [s EXCEPT !.capital = QAdd(s.capital, exit_value),
                  !.trades = Append(@, [type |-> "EXIT_LONG",
                                        timestamp |-> current_time,
                                        price |-> current_price,
                                        size |-> s.position_size,
                                        profit |-> profit]),
                  !.position = None,
                  !.position_size = Q0,
                  !.entry_price = Q0]

(* An exit that measures the profit from the initial capital *)
ExitLongProfitFromInitial(s, current_price, current_time) ==
    LET exit_value == QMul(s.position_size, current_price)
        profit == QSub(exit_value, QInt(initial_capital))
    IN  [s EXCEPT !.capital = exit_value,
                  !.trades = Append(@, [type |-> "EXIT_LONG",
                                        timestamp |-> current_time,
                                        price |-> current_price,
                                        size |-> s.position_size,
                                        profit |-> profit]),
                  !.position = None,
                  !.position_size = Q0,
                  !.entry_price = Q0]

(* An exit that records the price difference per unit as the profit *)
ExitLongPerUnitProfit(s, current_price, current_time) ==
    LET exit_value == QMul(s.position_size, current_price)
        profit == QSub(current_price, s.entry_price)
    IN  [s EXCEPT !.capital = exit_value,
                  !.trades = Append(@, [type |-> "EXIT_LONG",
                                        timestamp |-> current_time,
                                        price |-> current_price,
                                        size |-> s.position_size,
                                        profit |-> profit]),
                  !.position = None,
                  !.position_size = Q0,
                  !.entry_price = Q0]

(* An exit that leaves the position open *)
ExitLongStaysLong(s, current_price, current_time) ==
    LET exit_value == QMul(s.position_size, current_price)
        profit == QSub(exit_value, s.capital)
    IN  [s EXCEPT !.capital = exit_value,
                  !.trades = Append(@, [type |-> "EXIT_LONG",
                                        timestamp |-> current_time,
                                        price |-> current_price,
                                        size |-> s.position_size,
                                        profit |-> profit])]

(* If in long position, exit *)
ExitLong(s, current_price, current_time) ==
    LET exit_value == QMul(s.position_size, current_price)
        profit == QSub(exit_value, s.capital)
    IN  [s EXCEPT !.capital = exit_value,
                  !.trades = Append(@, [type |-> "EXIT_LONG",
                                        timestamp |-> current_time,
                                        price |-> current_price,
                                        size |-> s.position_size,
                                        profit |-> profit]),
                  !.position = None,
                  !.position_size = Q0,
                  !.entry_price = Q0]

(* A handler that acts on BUY whatever the position (pyramiding) *)
HandleSignalPyramiding(s, sig, current_price, current_time) ==
    IF sig = "BUY"
    THEN EnterLong(s, current_price, current_time)
    ELSE IF sig = "SELL"
    THEN IF s.position = "long" THEN ExitLong(s, current_price, current_time) ELSE s
    ELSE s

(* The if / elif of one loop iteration *)
HandleSignal(s, sig, current_price, current_time) ==
    IF sig = "BUY" /\ s.position = None
    THEN EnterLong(s, current_price, current_time)
    ELSE IF sig = "SELL"
    THEN IF s.position = "long" THEN ExitLong(s, current_price, current_time) ELSE s
    ELSE s

(* The body of one loop iteration on frame d at index k, from ledger s:     *)
(* the signal evaluated on the slice and the ledger it leaves               *)
Iteration(r, s, current_price, current_time) ==
    [raised |-> r.raised,
     signal_type |-> r.signal_type,
     self |-> IF r.raised THEN s
              ELSE HandleSignal(s, r.signal_type, current_price, current_time)]
LoopBody(d, s, k) ==
    Iteration(generate_signals(Slice(d, k), min_body_size), s, QInt(d.close[k + 1]), k)

(* t.get('profit', 0) *)
(* A lookup that values a record without a profit at its size *)
ProfitOrSize(t) == IF "profit" \in DOMAIN t THEN t.profit ELSE t.size

ProfitOf(t) == IF "profit" \in DOMAIN t THEN t.profit ELSE Q0

RECURSIVE SumProfit(_)
SumProfit(ts) ==
    IF ts = <<>> THEN Q0 ELSE QAdd(SumProfit(SubSeq(ts, 1, Len(ts) - 1)), ProfitOf(ts[Len(ts)]))

(* A win rate without the factor 100 *)
WinRateFraction(winning_trades, total_trades) ==
    IF total_trades > 0 THEN QNorm(winning_trades, total_trades) ELSE Q0

(* (winning_trades / total_trades * 100) if total_trades > 0 else 0 *)
WinRate(winning_trades, total_trades) ==
    IF total_trades > 0
    THEN QMul(QNorm(winning_trades, total_trades), QInt(100))
    ELSE Q0

_calculate_results(s, sym) ==
    LET ts == s.trades
        total_trades ==
            Cardinality({k \in 1..Len(ts) : ts[k].type \in {"EXIT_LONG", "EXIT_SHORT"}})
        winning_trades == Cardinality({k \in 1..Len(ts) : QGt(ProfitOf(ts[k]), Q0)})
        losing_trades == Cardinality({k \in 1..Len(ts) : QLt(ProfitOf(ts[k]), Q0)})
        total_profit == SumProfit(s.trades)
        final_capital == s.capital
        returns == QMul(QDiv(QSub(final_capital, QInt(initial_capital)),
                             QInt(initial_capital)), QInt(100))
        win_rate == WinRate(winning_trades, total_trades)
    IN  [kind |-> "results",
         symbol |-> sym,
         initial_capital |-> QInt(initial_capital),
         final_capital |-> final_capital,
         total_profit |-> total_profit,
         returns_percentage |-> returns,
         total_trades |-> total_trades,
         winning_trades |-> winning_trades,
         losing_trades |-> losing_trades,
         win_rate |-> win_rate,
         trades |-> s.trades]

Pending == [kind |-> "pending"]
ReturnedNone == [kind |-> "None"]
Propagated == [kind |-> "exception"]

-----------------------------------------------------------------------------
(* State machine *)

(* Calls with their own frame (length and candles as the frames above) *)
MaxPairTail == 2
PairInputs ==
    {FrameOf(Flat(MIN_INDICATOR_PERIODS) \o tail) :
        tail \in UNION {[1..t -> Alphabet] : t \in 0..MaxPairTail}}

symbol2 == "ETH/USDT"

(* The second call before it starts, for the frame f *)
Idle(f) == [df |-> f, pc |-> "idle", i |-> 0, signal_type |-> None,
            results |-> Pending, all_results |-> <<>>]

InitEngine ==
    /\ pc = "idle"
    /\ i = 0
    /\ signal_type = None
    /\ capital = Fresh.capital
    /\ position = Fresh.position
    /\ position_size = Fresh.position_size
    /\ entry_price = Fresh.entry_price
    /\ trades = Fresh.trades
    /\ results = Pending
    /\ all_results = <<>>
    /\ signals = Pending
    /\ bot_result = Pending
    /\ error_log = <<>>
    /\ pandas_apply_empty \in {"frame", "series"}
    /\ backtest_result = Pending
    /\ applied = Pending
    /\ fleet = [fetch |-> Pending, signals |-> Pending, bot |-> Pending]

Init ==
    /\ df \in Inputs
    /\ other = Idle(FrameOf(<<>>))
    /\ InitEngine

SetSelf(s) ==
    /\ capital' = s.capital
    /\ position' = s.position
    /\ position_size' = s.position_size
    /\ entry_price' = s.entry_price
    /\ trades' = s.trades

(* An entry whose length check also refuses exactly MIN_INDICATOR_PERIODS  *)
(* candles                                                                 *)
EnterRefusesExactMinimum ==
    /\ pc = "idle"
    /\ SetSelf(Fresh)
    /\ IF FLen(df) <= MIN_INDICATOR_PERIODS
       THEN /\ results' = ReturnedNone
            /\ pc' = "done"
            /\ i' = i
       ELSE /\ results' = results
            /\ pc' = "loop"
            /\ i' = MIN_INDICATOR_PERIODS
    /\ UNCHANGED <<df, signal_type, all_results, signals, bot_result, error_log,
                 pandas_apply_empty, tool_results>>

(* An entry without the length check, whose loop starts at the second     *)
(* candle                                                                  *)
EnterFromSecondCandle ==
    /\ pc = "idle"
    /\ SetSelf(Fresh)
    /\ results' = results
    /\ pc' = "loop"
    /\ i' = 1
    /\ UNCHANGED <<df, signal_type, all_results, signals, bot_result, error_log,
                 pandas_apply_empty, tool_results>>

(* backtest_multiple_pairs calls backtest_single_pair: reset, length check *)
Enter ==
    /\ pc = "idle"
    /\ SetSelf(Fresh)
    /\ IF FLen(df) < MIN_INDICATOR_PERIODS
       THEN /\ results' = ReturnedNone
            /\ pc' = "done"
            /\ i' = i
       ELSE /\ results' = results
            /\ pc' = "loop"
            /\ i' = MIN_INDICATOR_PERIODS
    /\ UNCHANGED <<df, signal_type, all_results, signals, bot_result, error_log,
                 pandas_apply_empty, tool_results>>

(* One iteration of the loop of backtest_single_pair *)
Step ==
    /\ pc = "loop"
    /\ i < FLen(df)
    /\ \E b \in {LoopBody(df, Self, i)} :
           /\ ~b.raised
           /\ signal_type' = b.signal_type
           /\ SetSelf(b.self)
    /\ i' = i + 1
    /\ UNCHANGED <<df, pc, results, all_results, signals, bot_result, error_log,
                 pandas_apply_empty, tool_results>>

(* generate_signals raises: the exception leaves backtest_single_pair and is *)
(* caught and logged by backtest_multiple_pairs, which records no result     *)
StepRaises ==
    /\ pc = "loop"
    /\ i < FLen(df)
    /\ LoopBody(df, Self, i).raised
    /\ results' = Propagated
    /\ error_log' = Append(error_log, "Error backtesting")
    /\ pc' = "done"
    /\ UNCHANGED <<df, i, signal_type, ledger, all_results, signals, bot_result,
                 pandas_apply_empty, tool_results>>

(* End of the loop: _calculate_results, and the report is stored *)
Finish ==
    /\ pc = "loop"
    /\ i = FLen(df)
    /\ results' = _calculate_results(Self, symbol)
    /\ all_results' = (symbol :> results')
    /\ pc' = "done"
    /\ UNCHANGED <<df, i, signal_type, ledger, signals, bot_result, error_log,
                 pandas_apply_empty, tool_results>>

Next == Enter \/ Step \/ StepRaises \/ Finish

Spec == Init /\ [][Next]_vars

-----------------------------------------------------------------------------
(* Two backtests through the same Backtester, their steps interleaved *)

(* Both calls start idle, each with its own instrument and frame *)
InitInterleaved ==
    /\ df \in PairInputs
    /\ other \in {Idle(f) : f \in PairInputs}
    /\ InitEngine

(* The second call enters backtest_single_pair: reset, length check *)
EnterOther ==
    /\ other.pc = "idle"
    /\ SetSelf(Fresh)
    /\ other' = IF FLen(other.df) < MIN_INDICATOR_PERIODS
                 THEN [other EXCEPT !.results = ReturnedNone, !.pc = "done"]
                 ELSE [other EXCEPT !.pc = "loop", !.i = MIN_INDICATOR_PERIODS]
    /\ UNCHANGED <<df, pc, i, signal_type, results, all_results, signals, bot_result,
                   error_log, pandas_apply_empty, backtest_result, applied, fleet>>

(* One iteration of the loop of the second call *)
StepOther ==
    /\ other.pc = "loop"
    /\ other.i < FLen(other.df)
    /\ \E b \in {LoopBody(other.df, Self, other.i)} :
           /\ ~b.raised
           /\ other' = [other EXCEPT !.signal_type = b.signal_type, !.i = @ + 1]
           /\ SetSelf(b.self)
    /\ UNCHANGED <<df, pc, i, signal_type, results, all_results, signals, bot_result,
                   error_log, pandas_apply_empty, backtest_result, applied, fleet>>

(* generate_signals raises in the second call *)
StepRaisesOther ==
    /\ other.pc = "loop"
    /\ other.i < FLen(other.df)
    /\ LoopBody(other.df, Self, other.i).raised
    /\ other' = [other EXCEPT !.results = Propagated, !.pc = "done"]
    /\ error_log' = Append(error_log, "Error backtesting")
    /\ UNCHANGED <<df, pc, i, signal_type, ledger, results, all_results, signals,
                   bot_result, pandas_apply_empty, backtest_result, applied, fleet>>

(* End of the loop of the second call *)
FinishOther ==
    /\ other.pc = "loop"
    /\ other.i = FLen(other.df)
    /\ \E r \in {_calculate_results(Self, symbol2)} :
           other' = [other EXCEPT !.results = r, !.all_results = (symbol2 :> r),
                                  !.pc = "done"]
    /\ UNCHANGED <<df, pc, i, signal_type, ledger, results, all_results, signals,
                   bot_result, error_log, pandas_apply_empty, backtest_result, applied, fleet>>

NextInterleaved ==
    \/ Enter \/ Step \/ StepRaises \/ Finish
    \/ EnterOther \/ StepOther \/ StepRaisesOther \/ FinishOther

SpecInterleaved == InitInterleaved /\ [][NextInterleaved]_vars

-----------------------------------------------------------------------------
(* main.py: class TradingBot *)

TradingBot_calculate_bollinger_bands(f) ==
    LET b == BandColumns(f.close, BB_PERIOD, BB_STD)
    IN  [bb_middle |-> b.MIDDLE, bb_upper |-> b.UPPER, bb_lower |-> b.LOWER] @@ f

(* The frame TradingBot.calculate_heikin_ashi returns for a frame with a   *)
(* row 0 *)
TradingBot_HeikinAshiColumns(f, hc, ho) ==
    [ha_close |-> hc, ha_open |-> ho,
     ha_high |-> HAHighColumn(f, ho, hc),
     ha_low |-> HALowColumn(f, ho, hc)] @@ f
TradingBot_calculate_heikin_ashi(f) ==
    TradingBot_HeikinAshiColumns(f, HACloseColumn(f),
                                 HAOpenLoop(f, HACloseColumn(f), <<>>))

calculate_body_size_percent(ha_open, ha_close, ha_high, ha_low) ==
    LET total_range == QSub(ha_high, ha_low)
    IN  IF total_range = Q0 THEN Q0
        ELSE QMul(QDiv(QAbs(QSub(ha_close, ha_open)), total_range), QInt(100))

is_red_candle(ha_open, ha_close) == QLt(ha_close, ha_open)

is_green_candle(ha_open, ha_close) == QGt(ha_close, ha_open)

touches_or_breaks_lower_bb(ha_low, ha_close, bb_lower) ==
    LeBand(ha_low, bb_lower) \/ LeBand(ha_close, bb_lower)

touches_or_breaks_upper_bb(ha_high, ha_close, bb_upper) ==
    GeBand(ha_high, bb_upper) \/ GeBand(ha_close, bb_upper)

(* round(x, 2) of a non-negative x: to the nearest hundredth, ties to even *)
Round2(x) ==
    LET n == 100 * x.n
        fl == n \div x.d
        rem == n % x.d
        up == 2 * rem > x.d \/ (2 * rem = x.d /\ fl % 2 = 1)
    IN  QNorm(IF up THEN fl + 1 ELSE fl, 100)

EmptyDict == [empty |-> TRUE]

check_buy_signal(f) ==
    IF FLen(f) < 2 THEN [has_signal |-> FALSE, details |-> EmptyDict]
    ELSE
      LET prev_candle == Row(f, FLen(f) - 2)
          current_candle == Row(f, FLen(f) - 1)
          prev_is_red == is_red_candle(prev_candle["ha_open"], prev_candle["ha_close"])
          prev_touches_bb == touches_or_breaks_lower_bb(
              prev_candle["ha_low"], prev_candle["ha_close"], prev_candle["bb_lower"])
          current_is_green ==
              is_green_candle(current_candle["ha_open"], current_candle["ha_close"])
          current_body_percent == calculate_body_size_percent(
              current_candle["ha_open"], current_candle["ha_close"],
              current_candle["ha_high"], current_candle["ha_low"])
          body_size_ok == QGe(current_body_percent, QInt(MIN_BODY_SIZE_PERCENT))
      IN  [has_signal |-> prev_is_red /\ prev_touches_bb /\ current_is_green /\ body_size_ok,
           details |-> [prev_candle_red |-> prev_is_red,
                        prev_touches_lower_bb |-> prev_touches_bb,
                        current_candle_green |-> current_is_green,
                        current_body_percent |-> Round2(current_body_percent),
                        body_size_ok |-> body_size_ok,
                        prev_ha_close |-> prev_candle["ha_close"],
                        prev_bb_lower |-> prev_candle["bb_lower"],
                        current_ha_close |-> current_candle["ha_close"],
                        timestamp |-> FLen(f) - 1]]

(* A sell check that repeats the conditions of the buy check *)
check_sell_signal_as_buy(f) == check_buy_signal(f)

check_sell_signal(f) ==
    IF FLen(f) < 2 THEN [has_signal |-> FALSE, details |-> EmptyDict]
    ELSE
      LET prev_candle == Row(f, FLen(f) - 2)
          current_candle == Row(f, FLen(f) - 1)
          prev_is_green == is_green_candle(prev_candle["ha_open"], prev_candle["ha_close"])
          prev_touches_bb == touches_or_breaks_upper_bb(
              prev_candle["ha_high"], prev_candle["ha_close"], prev_candle["bb_upper"])
          current_is_red ==
              is_red_candle(current_candle["ha_open"], current_candle["ha_close"])
          current_body_percent == calculate_body_size_percent(
              current_candle["ha_open"], current_candle["ha_close"],
              current_candle["ha_high"], current_candle["ha_low"])
          body_size_ok == QGe(current_body_percent, QInt(MIN_BODY_SIZE_PERCENT))
      IN  [has_signal |-> prev_is_green /\ prev_touches_bb /\ current_is_red /\ body_size_ok,
           details |-> [prev_candle_green |-> prev_is_green,
                        prev_touches_upper_bb |-> prev_touches_bb,
                        current_candle_red |-> current_is_red,
                        current_body_percent |-> Round2(current_body_percent),
                        body_size_ok |-> body_size_ok,
                        prev_ha_close |-> prev_candle["ha_close"],
                        prev_bb_upper |-> prev_candle["bb_upper"],
                        current_ha_close |-> current_candle["ha_close"],
                        timestamp |-> FLen(f) - 1]]

(* The result of scan_pair before the try block *)
InitialResult(sym) ==
    [kind |-> "result", symbol |-> sym,
     buy_signal |-> FALSE, sell_signal |-> FALSE,
     buy_details |-> EmptyDict, sell_details |-> EmptyDict,
     error |-> None]

(* The result of scan_pair filled from the two checks *)
FilledResult(sym, buy, sell) ==
    [InitialResult(sym) EXCEPT !.buy_signal = buy.has_signal,
                               !.sell_signal = sell.has_signal,
                               !.buy_details = buy.details,
                               !.sell_details = sell.details]

(* Check for signals, on the frame with the indicators *)
CheckSignals(sym, f) == FilledResult(sym, check_buy_signal(f), check_sell_signal(f))

(* scan_pair(symbol): fetch_ohlcv returns the frame fetched, or None when *)
(* fetch_ok is FALSE; an exception of the indicators is caught            *)
scan_pair(sym, fetch_ok, fetched) ==
    IF ~fetch_ok THEN [InitialResult(sym) EXCEPT !.error = "Insufficient data"]
    ELSE IF FLen(fetched) < BB_PERIOD + 2
    THEN [InitialResult(sym) EXCEPT !.error = "Insufficient data"]
    ELSE IF ~AllNumeric(fetched) THEN [InitialResult(sym) EXCEPT !.error = "TypeError"]
    ELSE CheckSignals(sym, TradingBot_calculate_heikin_ashi(
                               TradingBot_calculate_bollinger_bands(fetched)))

-----------------------------------------------------------------------------
(* backtest.py: the signal backtest of the bot *)

(* Attributes of a TradingBot instance: __init__ sets three, the class     *)
(* body defines methods only; BB_PERIOD is a module-level name of main.py  *)
TradingBotAttributes == {"exchange", "telegram_bot_1", "telegram_bot_2"}

(* The signals appended for index k: the two checks on the slice 0..k *)
SignalsAt(f, k, buy, sell) ==
    (IF buy.has_signal
     THEN <<[type |-> "BUY", timestamp |-> k, price |-> f.close[k + 1],
             details |-> buy.details]>>
     ELSE <<>>)
    \o (IF sell.has_signal
        THEN <<[type |-> "SELL", timestamp |-> k, price |-> f.close[k + 1],
                details |-> sell.details]>>
        ELSE <<>>)

(* The loop of backtest_pair from index k on the frame with the indicators *)
RECURSIVE BacktestPairLoop(_, _, _)
BacktestPairLoop(f, k, acc) ==
    IF k >= FLen(f) THEN acc
    ELSE BacktestPairLoop(f, k + 1,
             acc \o SignalsAt(f, k, check_buy_signal(Slice(f, k)),
                                    check_sell_signal(Slice(f, k))))

BacktestPairReport(sym, sigs) ==
    [kind |-> "result", symbol |-> sym, signals |-> sigs,
     total_signals |-> Len(sigs),
     buy_signals |-> Cardinality({k \in 1..Len(sigs) : sigs[k].type = "BUY"}),
     sell_signals |-> Cardinality({k \in 1..Len(sigs) : sigs[k].type = "SELL"})]

(* Backtester.backtest_pair(symbol): fetch_ohlcv returns the frame fetched, *)
(* or None when fetch_ok is FALSE; `df is None or len(df) < self.bot.      *)
(* BB_PERIOD + 2` reads the attribute BB_PERIOD of the bot unless df is    *)
(* None                                                                    *)
backtest_pair(sym, fetch_ok, fetched) ==
    IF ~fetch_ok THEN ReturnedNone
    ELSE IF "BB_PERIOD" \notin TradingBotAttributes
    THEN [kind |-> "raised", exception |-> "AttributeError"]
    ELSE IF FLen(fetched) < BB_PERIOD + 2 THEN ReturnedNone
    ELSE IF ~AllNumeric(fetched) THEN [kind |-> "raised", exception |-> "TypeError"]
    ELSE BacktestPairReport(sym,
             BacktestPairLoop(TradingBot_calculate_heikin_ashi(
                                  TradingBot_calculate_bollinger_bands(fetched)),
                              BB_PERIOD + 1, <<>>))

-----------------------------------------------------------------------------
(* Scanning the latest candles of the instrument *)

(* A pass after which an exception empties the lists collected so far *)
ScanItemResetOnError(acc, sym, r) ==
    IF r.raised THEN [BUY |-> <<>>, SELL |-> <<>>,
                      log |-> Append(acc.log, "Error generating signals")]
    ELSE IF r.signal_type = "BUY" THEN [acc EXCEPT !.BUY = Append(@, sym)]
    ELSE IF r.signal_type = "SELL" THEN [acc EXCEPT !.SELL = Append(@, sym)]
    ELSE acc

(* One pass of the loop of scan_multiple_pairs: r is what generate_signals *)
(* did for the instrument sym; an exception is caught and logged           *)
ScanItem(acc, sym, r) ==
    IF r.raised THEN [acc EXCEPT !.log = Append(@, "Error generating signals")]
    ELSE IF r.signal_type = "BUY" THEN [acc EXCEPT !.BUY = Append(@, sym)]
    ELSE IF r.signal_type = "SELL" THEN [acc EXCEPT !.SELL = Append(@, sym)]
    ELSE acc

(* scan_multiple_pairs(data_dict): data_dict as the sequence of its items, *)
(* in insertion order; log holds the messages written with logger.error    *)
RECURSIVE ScanLoop(_, _, _)
ScanLoop(items, k, acc) ==
    IF k > Len(items) THEN acc
    ELSE ScanLoop(items, k + 1,
                  ScanItem(acc, items[k].symbol,
                           generate_signals(items[k].df, min_body_size)))
scan_multiple_pairs(items) ==
    ScanLoop(items, 1, [BUY |-> <<>>, SELL |-> <<>>, log |-> <<>>])

(* signals.scan_multiple_pairs({symbol: df}) *)
ScanMultiplePairs ==
    /\ signals.kind = "pending"
    /\ \E r \in {scan_multiple_pairs(<<[symbol |-> symbol, df |-> df]>>)} :
           /\ signals' = [kind |-> "returned", BUY |-> r.BUY, SELL |-> r.SELL]
           /\ error_log' = error_log \o r.log
    /\ UNCHANGED <<df, pc, i, signal_type, ledger, results, all_results, bot_result,
                   pandas_apply_empty, tool_results>>

(* TradingBot.scan_pair(symbol); the exchange delivers df or the fetch fails *)
ScanPair ==
    /\ bot_result.kind = "pending"
    /\ \E fetch_ok \in BOOLEAN :
          bot_result' = scan_pair(symbol, fetch_ok, df)
    /\ UNCHANGED <<df, pc, i, signal_type, ledger, results, all_results, signals,
                   error_log, pandas_apply_empty, tool_results>>

(* Backtester.backtest_pair(symbol) of backtest.py *)
BacktestPair ==
    /\ backtest_result.kind = "pending"
    /\ \E fetch_ok \in BOOLEAN :
          backtest_result' = backtest_pair(symbol, fetch_ok, df)
    /\ UNCHANGED <<df, pc, i, signal_type, ledger, results, all_results, signals,
                   bot_result, error_log, pandas_apply_empty, applied, other, fleet>>

NextScan == ScanMultiplePairs \/ ScanPair \/ BacktestPair

SpecScan == Init /\ [][NextScan]_vars

-----------------------------------------------------------------------------
(* A scan of two instruments *)

(* What the exchange holds for the two instruments *)
Exchange == <<[symbol |-> symbol, df |-> df], [symbol |-> symbol2, df |-> other.df]>>

FleetInputs == PairInputs \cup {FrameOf(<<>>)}

(* DataFetcher.fetch_ohlcv: None when the request fails (ok is FALSE) or   *)
(* the exchange returns no candle, else the frame                          *)
DataFetcher_fetch_ohlcv(ok, f) ==
    IF ok /\ FLen(f) > 0 THEN [kind |-> "frame", df |-> f] ELSE ReturnedNone

(* DataFetcher.fetch_multiple_pairs(symbols): ok[s] tells whether the      *)
(* request for s succeeds                                                  *)
RECURSIVE FetchLoop(_, _, _, _)
FetchLoop(items, ok, k, acc) ==
    IF k > Len(items) THEN acc
    ELSE FetchLoop(items, ok, k + 1,
             IF DataFetcher_fetch_ohlcv(ok[items[k].symbol], items[k].df).kind = "None"
             THEN acc
             ELSE Append(acc, items[k]))
fetch_multiple_pairs(items, ok) == FetchLoop(items, ok, 1, <<>>)

(* One pass of the loop of scan_all_pairs with the result of scan_pair *)
ScanAllItem(acc, result) ==
    [results |-> Append(acc.results, result),
     buy |-> IF result.buy_signal THEN Append(acc.buy, result.symbol) ELSE acc.buy,
     sell |-> IF result.sell_signal THEN Append(acc.sell, result.symbol) ELSE acc.sell]

(* TradingBot.scan_all_pairs over the pairs of items; results keeps the    *)
(* result of scan_pair of every pass                                       *)
RECURSIVE ScanAllLoop(_, _, _, _)
ScanAllLoop(items, ok, k, acc) ==
    IF k > Len(items) THEN acc
    ELSE ScanAllLoop(items, ok, k + 1,
             ScanAllItem(acc, scan_pair(items[k].symbol, ok[items[k].symbol],
                                        items[k].df)))
scan_all_pairs(items, ok) ==
    ScanAllLoop(items, ok, 1, [results |-> <<>>, buy |-> <<>>, sell |-> <<>>])

InitFleet ==
    /\ df \in FleetInputs
    /\ other \in {Idle(f) : f \in FleetInputs}
    /\ InitEngine

(* The engine's scan (data_fetcher.py, signals.py) and the bot's scan      *)
(* (main.py) are separate programs: a run is one or the other              *)
FetchMultiplePairs ==
    /\ fleet.fetch.kind = "pending"
    /\ fleet.bot.kind = "pending"
    /\ \E ok \in [{symbol, symbol2} -> BOOLEAN] :
          fleet' = [fleet EXCEPT !.fetch =
                       [kind |-> "returned", ok |-> ok,
                        data_dict |-> fetch_multiple_pairs(Exchange, ok)]]
    /\ UNCHANGED <<df, pc, i, signal_type, ledger, results, all_results, signals,
                   bot_result, error_log, pandas_apply_empty, backtest_result,
                   applied, other>>

(* scan_multiple_pairs on the frames fetched *)
ScanFetched ==
    /\ fleet.fetch.kind = "returned"
    /\ fleet.signals.kind = "pending"
    /\ \E r \in {scan_multiple_pairs(fleet.fetch.data_dict)} :
           /\ fleet' = [fleet EXCEPT !.signals =
                           [kind |-> "returned", BUY |-> r.BUY, SELL |-> r.SELL,
                            log |-> r.log]]
           /\ error_log' = error_log \o r.log
    /\ UNCHANGED <<df, pc, i, signal_type, ledger, results, all_results, signals,
                   bot_result, pandas_apply_empty, backtest_result, applied, other>>

ScanAllPairs ==
    /\ fleet.bot.kind = "pending"
    /\ fleet.fetch.kind = "pending"
    /\ \E ok \in [{symbol, symbol2} -> BOOLEAN] :
          \E r \in {scan_all_pairs(Exchange, ok)} :
              fleet' = [fleet EXCEPT !.bot =
                           [kind |-> "returned", ok |-> ok, results |-> r.results,
                            buy |-> r.buy, sell |-> r.sell]]
    /\ UNCHANGED <<df, pc, i, signal_type, ledger, results, all_results, signals,
                   bot_result, error_log, pandas_apply_empty, backtest_result,
                   applied, other>>

NextFleet == FetchMultiplePairs \/ ScanFetched \/ ScanAllPairs

SpecFleet == InitFleet /\ [][NextFleet]_vars

-----------------------------------------------------------------------------
(* The indicator functions applied to the instrument's frame *)

(* Lookback periods passed to calculate_bollinger_bands *)
Periods == {1, 2, 3, period}

Raises(e) == [raised |-> TRUE, exception |-> e]
Returns(f) == [raised |-> FALSE, frame |-> f]

(* indicators.calculate_bollinger_bands(df, period=window): the rolling    *)
(* mean of a column that holds a string raises                             *)
CallBollingerBands(f, window) ==
    IF ~AllNumeric(f) THEN Raises("TypeError")
    ELSE Returns(BollingerBands(f, window, std_dev))

(* indicators.calculate_heikin_ashi(df): the sum of the four columns       *)
(* raises when a cell holds a string                                       *)
CallHeikinAshi(f) ==
    IF ~AllNumeric(f) THEN Raises("TypeError")
    ELSE Returns(calculate_heikin_ashi(f))

(* TradingBot.calculate_heikin_ashi(df): df.loc[0, 'open'] raises KeyError *)
(* on a frame without the row label 0                                      *)
TradingBot_CallHeikinAshi(f) ==
    IF ~AllNumeric(f) THEN Raises("TypeError")
    ELSE IF FLen(f) = 0 THEN Raises("KeyError")
    ELSE Returns(TradingBot_calculate_heikin_ashi(f))

(* SignalVisualizer: ha_df['ha_color'] = ha_df['ha_close'] >= ha_df['ha_open'], *)
(* read as green when True and red when False                              *)
ha_color(ha_open, ha_close) == QGe(ha_close, ha_open)

(* SignalVisualizer.calculate_heikin_ashi: ha_high and ha_low start as the *)
(* raw high and low; the loop over range(1, len(df)) replaces them by the  *)
(* max and min with ha_open and ha_close on every row but the first        *)
SignalVisualizer_HAHighColumn(f, ho, hc) ==
    [k \in 1..FLen(f) |-> IF k = 1 THEN QInt(f.high[k])
                          ELSE QMax(QInt(f.high[k]), QMax(ho[k], hc[k]))]
SignalVisualizer_HALowColumn(f, ho, hc) ==
    [k \in 1..FLen(f) |-> IF k = 1 THEN QInt(f.low[k])
                          ELSE QMin(QInt(f.low[k]), QMin(ho[k], hc[k]))]

(* np.where(ha_range > 0, ha_body / ha_range * 100, 0) *)
SignalVisualizer_BodyPct(ho, hc, hh, hl) ==
    [k \in 1..Len(hc) |->
        IF QGt(QSub(hh[k], hl[k]), Q0)
        THEN QMul(QDiv(QAbs(QSub(hc[k], ho[k])), QSub(hh[k], hl[k])), QInt(100))
        ELSE Q0]

SignalVisualizer_HeikinAshiColumns(f, hc, ho, hh, hl) ==
    [ha_close |-> hc, ha_open |-> ho, ha_high |-> hh, ha_low |-> hl,
     ha_color |-> [k \in 1..Len(hc) |-> ha_color(ho[k], hc[k])],
     ha_body_pct |-> SignalVisualizer_BodyPct(ho, hc, hh, hl)] @@ f

SignalVisualizer_HeikinAshiOf(f, hc, ho) ==
    SignalVisualizer_HeikinAshiColumns(f, hc, ho,
        SignalVisualizer_HAHighColumn(f, ho, hc),
        SignalVisualizer_HALowColumn(f, ho, hc))

(* The first row's ha_open is (open + close) / 2 from the column           *)
(* assignment; the loop fills the rows after it                            *)
SignalVisualizer_calculate_heikin_ashi(f) ==
    SignalVisualizer_HeikinAshiOf(f, HACloseColumn(f),
                                  HAOpenLoop(f, HACloseColumn(f), <<>>))

(* SignalVisualizer.calculate_heikin_ashi(df): the sum of the four columns *)
(* raises when a cell holds a string; an empty frame skips the loop        *)
SignalVisualizer_CallHeikinAshi(f) ==
    IF ~AllNumeric(f) THEN Raises("TypeError")
    ELSE Returns(SignalVisualizer_calculate_heikin_ashi(f))

(* The colour tests, the body sizes and the band-touch tests of the       *)
(* smoothed candle at row k                                               *)
CandleTests(k, row) ==
    [kind |-> "candle", index |-> k, candle |-> row,
     HA_COLOR |-> get_ha_candle_color(row),
     is_red |-> is_red_candle(row["HA_OPEN"], row["HA_CLOSE"]),
     is_green |-> is_green_candle(row["HA_OPEN"], row["HA_CLOSE"]),
     ha_color |-> ha_color(row["HA_OPEN"], row["HA_CLOSE"]),
     HA_BODY_SIZE |-> calculate_ha_body_size_percentage(row),
     body_percent |-> calculate_body_size_percent(row["HA_OPEN"], row["HA_CLOSE"],
                                                  row["HA_HIGH"], row["HA_LOW"]),
     check_bb_touch_lower |-> check_bb_touch(row, "lower"),
     check_bb_touch_upper |-> check_bb_touch(row, "upper"),
     touches_or_breaks_lower_bb |->
         touches_or_breaks_lower_bb(row["HA_LOW"], row["HA_CLOSE"], row["BB_LOWER"]),
     touches_or_breaks_upper_bb |->
         touches_or_breaks_upper_bb(row["HA_HIGH"], row["HA_CLOSE"], row["BB_UPPER"])]

(* Rows whose smoothed candle is tested: the last of the quiet history and *)
(* the freely chosen candles                                               *)
TestedRows(f) == {k \in 0..(FLen(f) - 1) : k >= FLen(f) - MaxTail - 1}

(* A call without df.copy(): the local name stays bound to the argument *)
DfCopyAliases(obj) == obj

(* df = df.copy(): the frame object the local name df is bound to after    *)
(* the line, for the object obj it was bound to before                     *)
DfCopy(obj) == "copy"

(* The caller's frame after a call that was handed it as the object        *)
(* "caller" and assigned its new columns, giving the frame out, to the     *)
(* object obj                                                              *)
CallerAfter(f, obj, out) == IF obj = "caller" THEN out ELSE f

(* The caller's frame after a call of an indicator function with outcome r *)
CallerAfterCall(f, r) ==
    IF r.raised THEN f ELSE CallerAfter(f, DfCopy("caller"), r.frame)

(* The caller's frame after generate_signals: the colour and body size    *)
(* columns are assigned to the frame calculate_heikin_ashi returned for    *)
(* the frame calculate_bollinger_bands returned                            *)
CallerAfterGenerateSignals(d, r) ==
    IF r.raised THEN d
    ELSE IF DfCopy(DfCopy("caller")) = "caller" THEN SignalFrame(d)
    ELSE d

ApplyBollingerBands ==
    /\ applied.kind = "pending"
    /\ \E window \in Periods :
          \E r \in {CallBollingerBands(df, window)} :
              applied' = [kind |-> "bollinger_bands", period |-> window,
                          out |-> r, caller |-> CallerAfterCall(df, r)]
    /\ UNCHANGED <<df, pc, i, signal_type, ledger, results, all_results, signals,
                   bot_result, error_log, pandas_apply_empty, backtest_result, other, fleet>>

ApplyHeikinAshi ==
    /\ applied.kind = "pending"
    /\ \E r \in {CallHeikinAshi(df)} :
          applied' = [kind |-> "heikin_ashi", out |-> r,
                      caller |-> CallerAfterCall(df, r)]
    /\ UNCHANGED <<df, pc, i, signal_type, ledger, results, all_results, signals,
                   bot_result, error_log, pandas_apply_empty, backtest_result, other, fleet>>

ApplyTradingBotHeikinAshi ==
    /\ applied.kind = "pending"
    /\ applied' = [kind |-> "bot_heikin_ashi", out |-> TradingBot_CallHeikinAshi(df)]
    /\ UNCHANGED <<df, pc, i, signal_type, ledger, results, all_results, signals,
                   bot_result, error_log, pandas_apply_empty, backtest_result, other, fleet>>

ApplyVisualizerHeikinAshi ==
    /\ applied.kind = "pending"
    /\ applied' = [kind |-> "visualizer_heikin_ashi",
                   out |-> SignalVisualizer_CallHeikinAshi(df)]
    /\ UNCHANGED <<df, pc, i, signal_type, ledger, results, all_results, signals,
                   bot_result, error_log, pandas_apply_empty, backtest_result, other, fleet>>

ApplyCandleTests ==
    /\ applied.kind = "pending"
    /\ AllNumeric(df)
    /\ \E k \in TestedRows(df) :
          applied' = CandleTests(k, Row(calculate_heikin_ashi(
                                            calculate_bollinger_bands(df)), k))
    /\ UNCHANGED <<df, pc, i, signal_type, ledger, results, all_results, signals,
                   bot_result, error_log, pandas_apply_empty, backtest_result, other, fleet>>

ApplyGenerateSignals ==
    /\ applied.kind = "pending"
    /\ \E r \in {generate_signals(df, min_body_size)} :
          applied' = [kind |-> "generate_signals", out |-> r,
                      caller |-> CallerAfterGenerateSignals(df, r)]
    /\ UNCHANGED <<df, pc, i, signal_type, ledger, results, all_results, signals,
                   bot_result, error_log, pandas_apply_empty, backtest_result, other, fleet>>

NextIndicators ==
    \/ ApplyGenerateSignals
    \/ ApplyBollingerBands
    \/ ApplyHeikinAshi
    \/ ApplyTradingBotHeikinAshi
    \/ ApplyVisualizerHeikinAshi
    \/ ApplyCandleTests

SpecIndicators == Init /\ [][NextIndicators]_vars

-----------------------------------------------------------------------------
(* Properties of the backtest simulator *)

(* The frame d cut after candle k, and d with one more candle *)
Prefix(d, k) == [c \in DOMAIN d |-> SubSeq(d[c], 1, k + 1)]
Extended(d, row) == [c \in DOMAIN d |-> Append(d[c], row[c])]

(* Frames that agree with d on candles 0..k and differ only after index k *)
AgreeingFrames(d, k) ==
    {Prefix(d, k)} \cup {Extended(Prefix(d, k), row) : row \in Alphabet}

(* The loop of backtest_single_pair continued on d up to index k, with b  *)
(* the outcome of step j: the signal of step k and the ledger after it    *)
RECURSIVE Replay(_, _, _, _)
Replay(d, b, j, k) ==
    IF j >= k \/ b.raised THEN b
    ELSE Replay(d, LoopBody(d, b.self, j + 1), j + 1, k)

(* A step of the loop was taken: index i was processed *)
StepTaken == pc = "loop" /\ i' = i + 1

(* Number of entries minus number of exits in the trades list *)
OpenPositions ==
    Cardinality({k \in 1..Len(trades) : trades[k].type = "ENTRY_LONG"})
      - Cardinality({k \in 1..Len(trades) : trades[k].type = "EXIT_LONG"})

(* Closed round trips and winning round trips of the trades list *)
ClosedTrades == {k \in 1..Len(trades) : trades[k].type = "EXIT_LONG"}
WonTrades == {k \in ClosedTrades : trades[k].profit.n > 0}

(* C1: no look-ahead.  After step i - 1 of the loop, the signal of that    *)
(* step and the ledger are those of the same loop run on any frame that    *)
(* agrees with df on candles 0..i-1 and differs only after them (df cut    *)
(* after candle i - 1, or continued by a different candle).                *)
C1_NoLookAhead ==
    (pc = "loop" /\ i > MIN_INDICATOR_PERIODS) =>
        \A d2 \in AgreeingFrames(df, i - 1) :
            \A b \in {Replay(d2, LoopBody(d2, Fresh, MIN_INDICATOR_PERIODS),
                             MIN_INDICATOR_PERIODS, i - 1)} :
                /\ ~b.raised
                /\ b.signal_type = signal_type
                /\ b.self = Self

(* A run in which a later candle exists while an earlier step has traded *)
C1_TradedBeforeLastCandle ==
    /\ pc = "loop"
    /\ i > MIN_INDICATOR_PERIODS
    /\ i < FLen(df)
    /\ signal_type = "BUY"
    /\ position = "long"

(* C2: every step whose (position, signal) pair is neither FLAT+BUY nor    *)
(* LONG+SELL leaves position, position_size, entry_price, capital and      *)
(* trades unchanged; at most one position is open at any time.             *)
C2_NoOpSteps ==
    /\ [][(/\ StepTaken
           /\ ~(position = None /\ signal_type' = "BUY")
           /\ ~(position = "long" /\ signal_type' = "SELL"))
          => UNCHANGED ledger]_vars
    /\ [](OpenPositions \in {0, 1})

(* The last step evaluated BUY while long and appended no trade *)
C2_BuyWhileLongIgnored ==
    /\ pc = "loop"
    /\ signal_type = "BUY"
    /\ position = "long"
    /\ trades # <<>>
    /\ trades[Len(trades)].timestamp < i - 1

(* C3: a BUY at step i while FLAT opens a long position with entry_price = *)
(* close[i] and position_size = capital / close[i], appends exactly one    *)
(* entry record with that price and size, and leaves capital unchanged.    *)
C3_BuyWhileFlat ==
    [][(StepTaken /\ position = None /\ signal_type' = "BUY") =>
         LET price == QInt(df.close[i + 1])
             size == QDiv(capital, price)
         IN  /\ position' = "long"
             /\ entry_price' = price
             /\ position_size' = size
             /\ trades' = Append(trades, [type |-> "ENTRY_LONG", timestamp |-> i,
                                          price |-> price, size |-> size])
             /\ capital' = capital]_vars

(* The last step opened a long position *)
C3_LongOpened ==
    /\ pc = "loop"
    /\ signal_type = "BUY"
    /\ position = "long"
    /\ trades # <<>>
    /\ trades[Len(trades)].timestamp = i - 1

(* C4: a SELL at step i while LONG makes capital = position_size *         *)
(* close[i] with position_size the size fixed at entry, appends exactly    *)
(* one exit record carrying the realized profit and resets position,       *)
(* position_size and entry_price; a run from 10000 that buys at 100 and    *)
(* sells at 110 has size 100, profit 1000, final capital 11000, return 10. *)
C4_SellWhileLong ==
    /\ [][(StepTaken /\ position = "long" /\ signal_type' = "SELL") =>
            LET price == QInt(df.close[i + 1])
                value == QMul(position_size, price)
            IN  /\ position_size = trades[Len(trades)].size
                /\ capital' = value
                /\ trades' = Append(trades, [type |-> "EXIT_LONG", timestamp |-> i,
                                             price |-> price, size |-> position_size,
                                             profit |-> QSub(value, capital)])
                /\ position' = None
                /\ position_size' = Q0
                /\ entry_price' = Q0]_vars
    /\ []((/\ results.kind = "results"
           /\ Len(trades) = 2
           /\ trades[1].price = QInt(100)
           /\ trades[2].price = QInt(110))
          => /\ trades[1].size = QInt(100)
             /\ trades[2].profit = QInt(1000)
             /\ results.final_capital = QInt(11000)
             /\ results.returns_percentage = QInt(10))

(* The report of a run that bought at 100 and sold at 110 *)
C4_ExampleRun ==
    /\ results.kind = "results"
    /\ Len(trades) = 2
    /\ trades[1].type = "ENTRY_LONG"
    /\ trades[1].price = QInt(100)
    /\ trades[2].type = "EXIT_LONG"
    /\ trades[2].price = QInt(110)

(* C5: capital conservation.  In every state capital equals                *)
(* initial_capital plus the sum of the profits of the recorded trades, and *)
(* every report has final_capital = initial_capital + total_profit, also   *)
(* when a position is still open at the end of the data.                   *)
C5_CapitalConservation ==
    /\ capital = QAdd(QInt(initial_capital), SumProfit(trades))
    /\ results.kind = "results" =>
          results.final_capital = QAdd(QInt(initial_capital), results.total_profit)

(* A report after a closed trade with a position still open at the end *)
C5_ReportWithOpenPosition ==
    /\ results.kind = "results"
    /\ position = "long"
    /\ results.total_trades >= 1
    /\ results.total_profit # Q0

(* C6: the profit of every closed trade is size * (exit_price -            *)
(* entry_price) with entry_price and size those of the matching entry;     *)
(* while a position is open capital = position_size * entry_price.         *)
C6_ProfitOfClosedTrade ==
    /\ \A k \in ClosedTrades :
          /\ k > 1
          /\ trades[k - 1].type = "ENTRY_LONG"
          /\ trades[k].size = trades[k - 1].size
          /\ trades[k].profit =
                QMul(trades[k].size, QSub(trades[k].price, trades[k - 1].price))
    /\ position = "long" => capital = QMul(position_size, entry_price)

(* A trade closed at a loss *)
C6_LosingTradeClosed == \E k \in ClosedTrades : trades[k].profit.n < 0

C8_NeverAborts ==
    (pc = "done" /\ FLen(df) >= MIN_INDICATOR_PERIODS) =>
        /\ i = FLen(df)
        /\ results.kind = "results"
        /\ symbol \in DOMAIN all_results

-----------------------------------------------------------------------------
(* Properties of the detectors *)

(* The rule of the detector on an adjacent pair (p, c) of smoothed         *)
(* candles: a candle is green when its close is above its open and red     *)
(* otherwise, a touch is wick-or-body and inclusive, body_pct is the       *)
(* body's share of the range in percent and 0 on a candle without range    *)
BodyPct(c) ==
    IF c["HA_HIGH"] = c["HA_LOW"] THEN Q0
    ELSE QDiv(QMul(QInt(100), QAbs(QSub(c["HA_CLOSE"], c["HA_OPEN"]))),
              QSub(c["HA_HIGH"], c["HA_LOW"]))
Green(x) == QGt(x["HA_CLOSE"], x["HA_OPEN"])
Red(x) == ~Green(x)
TouchesLower(p) ==
    LeBand(p["HA_LOW"], p["BB_LOWER"]) \/ LeBand(p["HA_CLOSE"], p["BB_LOWER"])
TouchesUpper(p) ==
    GeBand(p["HA_HIGH"], p["BB_UPPER"]) \/ GeBand(p["HA_CLOSE"], p["BB_UPPER"])
Rule(p, c, mbs) ==
    IF Red(p) /\ TouchesLower(p) /\ Green(c) /\ QLe(QInt(mbs), BodyPct(c)) THEN "BUY"
    ELSE IF Green(p) /\ TouchesUpper(p) /\ Red(c) /\ QLe(QInt(mbs), BodyPct(c))
    THEN "SELL"
    ELSE None
RuleOnFrame(f, mbs) == Rule(Row(f, FLen(f) - 2), Row(f, FLen(f) - 1), mbs)

(* The rule on the last adjacent pair of the smoothed candles of d *)
PairRule(d, mbs) ==
    RuleOnFrame(calculate_heikin_ashi(calculate_bollinger_bands(d)), mbs)

(* scan_multiple_pairs reports what the rule gives for the last pair of df *)
GenerateSignalsFollowsRule ==
    (signals.kind = "returned" /\ AllNumeric(df) /\ FLen(df) >= 2) =>
        /\ signals.BUY = IF PairRule(df, min_body_size) = "BUY" THEN <<symbol>> ELSE <<>>
        /\ signals.SELL = IF PairRule(df, min_body_size) = "SELL" THEN <<symbol>> ELSE <<>>

(* scan_pair reports what the rule gives for the last pair of df *)
TradingBotFollowsRule ==
    (bot_result.kind = "result" /\ bot_result.error = None) =>
        /\ bot_result.buy_signal = (PairRule(df, MIN_BODY_SIZE_PERCENT) = "BUY")
        /\ bot_result.sell_signal = (PairRule(df, MIN_BODY_SIZE_PERCENT) = "SELL")

(* C9 as stated: the detector's result is exactly the rule applied to the  *)
(* last adjacent pair, with inclusive thresholds, in generate_signals and  *)
(* in TradingBot.check_buy_signal / check_sell_signal alike.               *)
C9_DetectorFollowsRule == GenerateSignalsFollowsRule /\ TradingBotFollowsRule

C11_AtMostOneSignal ==
    /\ signal_type \in {"BUY", "SELL", None}
    /\ signals.kind = "returned" => (signals.BUY = <<>> \/ signals.SELL = <<>>)
    /\ bot_result.kind = "result" =>
          ~(bot_result.buy_signal /\ bot_result.sell_signal)
    /\ backtest_result.kind = "result" =>
          \A j, k \in 1..Len(backtest_result.signals) :
              j # k => backtest_result.signals[j].timestamp
                         # backtest_result.signals[k].timestamp

(* Both detectors have reported a sell for the frame, and backtest_pair    *)
(* has run on it                                                           *)
C11_SellReportedOnce ==
    /\ signals.kind = "returned"
    /\ signals.SELL = <<symbol>>
    /\ bot_result.kind = "result"
    /\ bot_result.sell_signal
    /\ backtest_result.kind \notin {"pending", "None"}

-----------------------------------------------------------------------------
(* Properties of the indicators *)

(* C12 as stated: every smoothed candle is exactly one of green and red,   *)
(* green iff ha_close > ha_open and red otherwise, and get_ha_candle_color,*)
(* TradingBot.is_red_candle / is_green_candle and the visualizer's         *)
(* ha_color all classify it so.                                            *)
C12_OneColourPolicy ==
    applied.kind = "candle" =>
        \A green \in {QGt(applied.candle["HA_CLOSE"], applied.candle["HA_OPEN"])} :
            /\ applied.HA_COLOR = (IF green THEN "green" ELSE "red")
            /\ applied.is_green = green
            /\ applied.is_red = ~green
            /\ applied.ha_color = green

(* The smoothed frame of every numeric frame that agrees with df on the    *)
(* candles 0..k (df cut after candle k, or continued by another candle)    *)
(* agrees with the smoothed frame ha on the rows 0..k                      *)
NoLookAheadAt(ha, k, transform(_)) ==
    \A d2 \in AgreeingFrames(df, k) :
        AllNumeric(d2) => Prefix(transform(d2), k) = Prefix(ha, k)

(* C13: the Heikin-Ashi transform preserves length and row alignment and   *)
(* has no look-ahead: the first k+1 smoothed candles are those of the      *)
(* transform of candles 0..k, whatever follows candle k, for               *)
(* indicators.calculate_heikin_ashi and TradingBot.calculate_heikin_ashi   *)
(* (k ranges over the last row of the quiet history and the rows after it).*)
C13_HeikinAshiNoLookAhead ==
    /\ (applied.kind = "heikin_ashi" /\ ~applied.out.raised) =>
          /\ FLen(applied.out.frame) = FLen(df)
          /\ \A c \in DOMAIN df : applied.out.frame[c] = df[c]
          /\ \A c \in {"HA_OPEN", "HA_CLOSE", "HA_HIGH", "HA_LOW"} :
                 Len(applied.out.frame[c]) = FLen(df)
          /\ \A k \in TestedRows(df) :
                 NoLookAheadAt(applied.out.frame, k, calculate_heikin_ashi)
    /\ (applied.kind = "bot_heikin_ashi" /\ ~applied.out.raised) =>
          /\ FLen(applied.out.frame) = FLen(df)
          /\ \A c \in DOMAIN df : applied.out.frame[c] = df[c]
          /\ \A c \in {"ha_open", "ha_close", "ha_high", "ha_low"} :
                 Len(applied.out.frame[c]) = FLen(df)
          /\ \A k \in TestedRows(df) :
                 NoLookAheadAt(applied.out.frame, k, TradingBot_calculate_heikin_ashi)

(* A frame smoothed whose last candles differ from the quiet history *)
C13_SmoothedMovingCandles ==
    /\ applied.kind = "heikin_ashi"
    /\ ~applied.out.raised
    /\ FLen(df) = MIN_INDICATOR_PERIODS + MaxTail
    /\ applied.out.frame["HA_OPEN"][FLen(df)] # QInt(104)
    /\ applied.out.frame["HA_CLOSE"][FLen(df)] # QInt(104)

(* Raw candles with low <= open, close <= high *)
WellFormed(d) ==
    \A k \in 1..FLen(d) :
        /\ d.low[k] <= d.open[k] /\ d.open[k] <= d.high[k]
        /\ d.low[k] <= d.close[k] /\ d.close[k] <= d.high[k]

(* C14: the body percentage of every smoothed candle of a well-formed      *)
(* frame lies in 0..100 and is 0 when ha_high = ha_low, for                *)
(* calculate_ha_body_size_percentage and calculate_body_size_percent; the  *)
(* candle with open 100, close 102, high 103, low 99 gives 50.             *)
C14_BodyPercentInRange ==
    /\ (applied.kind = "candle" /\ WellFormed(df)) =>
          /\ QLe(Q0, applied.HA_BODY_SIZE) /\ QLe(applied.HA_BODY_SIZE, QInt(100))
          /\ QLe(Q0, applied.body_percent) /\ QLe(applied.body_percent, QInt(100))
          /\ applied.candle["HA_HIGH"] = applied.candle["HA_LOW"] =>
                 (applied.HA_BODY_SIZE = Q0 /\ applied.body_percent = Q0)
    /\ calculate_ha_body_size_percentage(
           [HA_OPEN |-> QInt(100), HA_CLOSE |-> QInt(102),
            HA_HIGH |-> QInt(103), HA_LOW |-> QInt(99)]) = QInt(50)
    /\ calculate_body_size_percent(QInt(100), QInt(102), QInt(103), QInt(99)) = QInt(50)

(* A red smoothed candle with a body strictly inside its range was measured *)
C14_RedCandleMeasured ==
    /\ applied.kind = "candle"
    /\ applied.HA_COLOR = "red"
    /\ QLt(Q0, applied.HA_BODY_SIZE)
    /\ QLt(applied.HA_BODY_SIZE, QInt(100))
    /\ applied.body_percent = applied.HA_BODY_SIZE

(* The mean and the sample variance of a window w of closes, recomputed    *)
(* naively: sum / N and the sum of (N*x - sum)^2 over N^2 * (N-1)          *)
RECURSIVE SeqSum(_)
SeqSum(w) == IF w = <<>> THEN 0 ELSE w[1] + SeqSum(Tail(w))
NaiveMean(w) == QNorm(SeqSum(w), Len(w))
NaiveVar(w) ==
    QNorm(SeqSum([j \in 1..Len(w) |-> (Len(w) * w[j] - SeqSum(w)) * (Len(w) * w[j] - SeqSum(w))]),
          Len(w) * Len(w) * (Len(w) - 1))

(* The bands of row k are those of the window w, with multiplier std_dev *)
BandsOfWindow(f, k, w) ==
    /\ f["BB_MIDDLE"][k + 1] = Surd(NaiveMean(w), Q0, 0)
    /\ f["BB_UPPER"][k + 1] = Surd(NaiveMean(w), QMul(QInt(std_dev * std_dev), NaiveVar(w)), 1)
    /\ f["BB_LOWER"][k + 1] = Surd(NaiveMean(w), QMul(QInt(std_dev * std_dev), NaiveVar(w)), -1)
    /\ LeBand(NaiveMean(w), f["BB_UPPER"][k + 1])
    /\ GeBand(NaiveMean(w), f["BB_LOWER"][k + 1])

(* C15: calculate_bollinger_bands with a period N >= 2 keeps the rows,     *)
(* leaves the three bands missing (NaN, not zero) at every index i < N-1,  *)
(* and at every index i >= N-1 gives the mean of closes[i-N+1..i] and that *)
(* mean plus and minus std_dev sample deviations of the same closes, so    *)
(* lower <= middle <= upper.                                               *)
C15_BandsFromWindow ==
    (applied.kind = "bollinger_bands" /\ ~applied.out.raised /\ applied.period >= 2) =>
        /\ \A c \in {"BB_MIDDLE", "BB_UPPER", "BB_LOWER"} :
               Len(applied.out.frame[c]) = FLen(df)
        /\ \A k \in 0..(FLen(df) - 1) :
               IF k < applied.period - 1
               THEN \A c \in {"BB_MIDDLE", "BB_UPPER", "BB_LOWER"} :
                        applied.out.frame[c][k + 1] = NaN
               ELSE BandsOfWindow(applied.out.frame, k,
                                  SubSeq(df.close, k - applied.period + 2, k + 1))

(* Bands of the default period on a frame whose last window is not flat, *)
(* with missing bands on the first rows                                    *)
C15_BandsOfMovingWindow ==
    /\ applied.kind = "bollinger_bands"
    /\ applied.period = period
    /\ ~applied.out.raised
    /\ FLen(df) > period
    /\ applied.out.frame["BB_UPPER"][1] = NaN
    /\ applied.out.frame["BB_UPPER"][FLen(df)].r2 # Q0
    /\ applied.out.frame["BB_MIDDLE"][FLen(df)] # applied.out.frame["BB_MIDDLE"][FLen(df) - 1]

(* C16 as stated: calculate_bollinger_bands with a period N < 2 raises an  *)
(* input-validation error instead of returning a band frame.               *)
C16_ShortPeriodRejected ==
    (applied.kind = "bollinger_bands" /\ applied.period < 2) =>
        /\ applied.out.raised
        /\ applied.out.exception = "ValueError"

(* C17 as stated: the Heikin-Ashi transform of an empty candle sequence    *)
(* returns an empty smoothed sequence and does not raise, in               *)
(* indicators.calculate_heikin_ashi and TradingBot.calculate_heikin_ashi.  *)
C17_EmptyInEmptyOut ==
    (FLen(df) = 0 /\ applied.kind \in {"heikin_ashi", "bot_heikin_ashi"}) =>
        /\ ~applied.out.raised
        /\ FLen(applied.out.frame) = 0

-----------------------------------------------------------------------------
(* Properties of concurrent backtests *)

(* What backtest_single_pair returns for the frame d when it runs alone *)
AloneFrom(d, sym, b) ==
    IF b.raised THEN Propagated ELSE _calculate_results(b.self, sym)
Alone(d, sym) ==
    IF FLen(d) < MIN_INDICATOR_PERIODS THEN ReturnedNone
    ELSE IF FLen(d) = MIN_INDICATOR_PERIODS THEN _calculate_results(Fresh, sym)
    ELSE AloneFrom(d, sym, Replay(d, LoopBody(d, Fresh, MIN_INDICATOR_PERIODS),
                                  MIN_INDICATOR_PERIODS, FLen(d) - 1))

(* C18 as stated: when the steps of two instruments' backtests through the *)
(* same Backtester are interleaved, each finished run returns the report   *)
(* it returns when it runs alone.                                          *)
C18_RunsIndependent ==
    /\ pc = "done" => results = Alone(df, symbol)
    /\ other.pc = "done" => other.results = Alone(other.df, symbol2)

-----------------------------------------------------------------------------
(* Properties of a scan of two instruments *)

(* The symbols of a sequence of items, and the items delivered under ok *)
SymbolsOf(items) == {items[k].symbol : k \in 1..Len(items)}
Delivered(ok) == {k \in 1..Len(Exchange) :
                     ok[Exchange[k].symbol] /\ FLen(Exchange[k].df) > 0}

(* The instrument of item x is listed under BUY / SELL exactly when        *)
(* generate_signals, evaluated on its frame alone, returns r               *)
ListedAlone(x, r) ==
    /\ (\E j \in 1..Len(fleet.signals.BUY) : fleet.signals.BUY[j] = x.symbol)
          <=> (~r.raised /\ r.signal_type = "BUY")
    /\ (\E j \in 1..Len(fleet.signals.SELL) : fleet.signals.SELL[j] = x.symbol)
          <=> (~r.raised /\ r.signal_type = "SELL")

(* C19: fault isolation across instruments.  fetch_multiple_pairs returns  *)
(* exactly the frames of the instruments whose fetch succeeded, whatever   *)
(* happened to the other; scan_multiple_pairs returns, and lists each      *)
(* fetched instrument under the signal generate_signals gives for it alone *)
(* and an instrument whose evaluation raised under none; scan_all_pairs    *)
(* gets from scan_pair, for every instrument, the result of that           *)
(* instrument alone, with no signal when its fetch or evaluation failed.   *)
C19_FaultIsolation ==
    /\ fleet.fetch.kind = "returned" =>
          /\ SymbolsOf(fleet.fetch.data_dict)
                = {Exchange[k].symbol : k \in Delivered(fleet.fetch.ok)}
          /\ \A k \in 1..Len(fleet.fetch.data_dict) :
                 \E j \in Delivered(fleet.fetch.ok) :
                     fleet.fetch.data_dict[k] = Exchange[j]
    /\ fleet.signals.kind = "returned" =>
          /\ \A k \in 1..Len(fleet.fetch.data_dict) :
                 ListedAlone(fleet.fetch.data_dict[k],
                             generate_signals(fleet.fetch.data_dict[k].df, min_body_size))
          /\ \A k \in 1..Len(Exchange) :
                 k \notin Delivered(fleet.fetch.ok) =>
                     \A j \in 1..Len(fleet.signals.BUY \o fleet.signals.SELL) :
                         (fleet.signals.BUY \o fleet.signals.SELL)[j] # Exchange[k].symbol
    /\ fleet.bot.kind = "returned" =>
          /\ Len(fleet.bot.results) = Len(Exchange)
          /\ \A k \in 1..Len(Exchange) :
                 /\ fleet.bot.results[k] =
                        scan_pair(Exchange[k].symbol, fleet.bot.ok[Exchange[k].symbol],
                                  Exchange[k].df)
                 /\ fleet.bot.results[k].error # None =>
                        (~fleet.bot.results[k].buy_signal
                           /\ ~fleet.bot.results[k].sell_signal)

(* The first instrument was fetched and its evaluation raised; the second  *)
(* one was fetched, evaluated and listed under BUY                         *)
C19_SecondListedAfterFailure ==
    /\ fleet.signals.kind = "returned"
    /\ fleet.fetch.ok[symbol]
    /\ ~AllNumeric(df)
    /\ fleet.signals.log = <<"Error generating signals">>
    /\ fleet.signals.BUY = <<symbol2>>

-----------------------------------------------------------------------------
(* Properties of the backtest on little history *)

(* C20: too little history is not an error.  With fewer than               *)
(* MIN_INDICATOR_PERIODS candles backtest_single_pair returns None without *)
(* raising, the ledger empty and capital = initial_capital; with exactly   *)
(* MIN_INDICATOR_PERIODS candles it evaluates no step and returns a report *)
(* with zero trades and final_capital = initial_capital.                   *)
C20_LittleHistoryIsNoError ==
    /\ (pc = "done" /\ FLen(df) < MIN_INDICATOR_PERIODS) =>
          /\ results = ReturnedNone
          /\ error_log = <<>>
          /\ trades = <<>>
          /\ capital = QInt(initial_capital)
          /\ position = None
    /\ (pc = "done" /\ FLen(df) = MIN_INDICATOR_PERIODS) =>
          /\ results.kind = "results"
          /\ error_log = <<>>
          /\ i = MIN_INDICATOR_PERIODS
          /\ signal_type = None
          /\ results.total_trades = 0
          /\ results.trades = <<>>
          /\ results.final_capital = QInt(initial_capital)
          /\ all_results = (symbol :> results)

(* A report for a frame of exactly MIN_INDICATOR_PERIODS candles whose     *)
(* last candle moves                                                       *)
C20_ReportOnExactMinimum ==
    /\ pc = "done"
    /\ FLen(df) = MIN_INDICATOR_PERIODS
    /\ df.close[FLen(df)] # 104
    /\ results.kind = "results"

-----------------------------------------------------------------------------
(* Properties of the calls *)

(* The details of a signal hold the values compared on the frame f with    *)
(* the indicator columns: the earlier candle's low (high), its band, the   *)
(* later candle's body size, and the later candle's index label            *)
DetailsFrom(f, r) ==
    /\ r.signal_type = "BUY" =>
          /\ r.signal_details.prev_candle_low = f["HA_LOW"][FLen(f) - 1]
          /\ r.signal_details.bb_lower = f["BB_LOWER"][FLen(f) - 1]
          /\ r.signal_details.current_body_size = f["HA_BODY_SIZE"][FLen(f)]
          /\ r.signal_details.timestamp = FLen(f) - 1
    /\ r.signal_type = "SELL" =>
          /\ r.signal_details.prev_candle_high = f["HA_HIGH"][FLen(f) - 1]
          /\ r.signal_details.bb_upper = f["BB_UPPER"][FLen(f) - 1]
          /\ r.signal_details.current_body_size = f["HA_BODY_SIZE"][FLen(f)]
          /\ r.signal_details.timestamp = FLen(f) - 1

(* C21: calculate_bollinger_bands, calculate_heikin_ashi and               *)
(* generate_signals leave the caller's frame as it was (same columns, same *)
(* values), and the details of a signal carry the compared values and the  *)
(* later candle's timestamp.                                               *)
C21_CallerFrameUnchanged ==
    /\ applied.kind \in {"bollinger_bands", "heikin_ashi", "generate_signals"} =>
          applied.caller = df
    /\ (applied.kind = "generate_signals" /\ ~applied.out.raised
           /\ applied.out.signal_type # None) =>
          DetailsFrom(SignalFrame(df), applied.out)

(* generate_signals returned BUY with its details *)
C21_BuyWithDetails ==
    /\ applied.kind = "generate_signals"
    /\ ~applied.out.raised
    /\ applied.out.signal_type = "BUY"
    /\ applied.out.signal_details.bb_lower # NaN

-----------------------------------------------------------------------------
(* The shape of the ledger *)

(* C27: after every step of backtest_single_pair the trades list           *)
(* alternates ENTRY_LONG, EXIT_LONG, ... starting with an entry; entries   *)
(* minus exits is 1 when position is 'long' and 0 when it is None;         *)
(* position_size and entry_price are zero unless position is 'long' (and  *)
(* non-zero while it is); and every exit is at a strictly later index     *)
(* than the entry before it.                                               *)
C27_LedgerShape ==
    /\ \A k \in 1..Len(trades) :
          trades[k].type = (IF k % 2 = 1 THEN "ENTRY_LONG" ELSE "EXIT_LONG")
    /\ position \in {None, "long"}
    /\ OpenPositions = (IF position = "long" THEN 1 ELSE 0)
    /\ position = None => (position_size = Q0 /\ entry_price = Q0)
    /\ position = "long" => (position_size # Q0 /\ entry_price # Q0)
    /\ \A k \in ClosedTrades : trades[k].timestamp > trades[k - 1].timestamp

(* A round trip was closed and the position is flat again *)
C27_FlatAfterRoundTrip ==
    /\ pc = "loop"
    /\ Len(trades) = 2
    /\ position = None
    /\ trades[2].timestamp > trades[1].timestamp + 1

(* The sum of the profits of the exit records of ts *)
RECURSIVE ExitProfits(_)
ExitProfits(ts) ==
    IF ts = <<>> THEN Q0
    ELSE QAdd(ExitProfits(SubSeq(ts, 1, Len(ts) - 1)),
              IF ts[Len(ts)].type = "EXIT_LONG" THEN ts[Len(ts)].profit ELSE Q0)

(* C30: a position still open when the data ends is neither closed nor     *)
(* marked to market: the report's trades end with the entry, the entry is  *)
(* not counted in total_trades, winning_trades or losing_trades and adds   *)
(* nothing to total_profit, and final_capital is the capital held when the *)
(* position was entered.                                                   *)
C30_OpenPositionLeftOpen ==
    (results.kind = "results" /\ position = "long") =>
        \A last \in {trades[Len(trades)]} :
            /\ results.trades = trades
            /\ last.type = "ENTRY_LONG"
            /\ results.total_trades = Cardinality(ClosedTrades)
            /\ results.winning_trades = Cardinality(WonTrades)
            /\ results.losing_trades =
                   Cardinality({k \in ClosedTrades : trades[k].profit.n < 0})
            /\ results.total_profit = ExitProfits(trades)
            /\ results.final_capital = QMul(last.size, last.price)
            /\ results.final_capital = QAdd(QInt(initial_capital), ExitProfits(trades))

(* A report with a position open whose entry price is not the last close *)
C30_OpenAwayFromEntryPrice ==
    /\ results.kind = "results"
    /\ position = "long"
    /\ QInt(df.close[FLen(df)]) # entry_price

-----------------------------------------------------------------------------
(* Two calls of backtest_single_pair on one Backtester, one after the other *)

SequentialInputs == PairInputs \cup {FrameOf(Flat(MIN_INDICATOR_PERIODS - 1))}

(* The second call before it starts.  trades_object names the list object  *)
(* self.trades is bound to ("first": the list the first call filled and    *)
(* its report holds); earlier_trades is the content of that first list     *)
IdleSecond(f) ==
    [df |-> f, pc |-> "idle", i |-> 0, signal_type |-> None,
     results |-> Pending, all_results |-> <<>>,
     trades_object |-> "first", earlier_trades |-> <<>>]

InitSequential ==
    /\ df \in SequentialInputs
    /\ other \in {IdleSecond(f) : f \in SequentialInputs}
    /\ InitEngine

(* A reset by self.trades.clear(): the name stays bound to the same list *)
TradesCleared(obj) == obj

(* self.trades = []: the list object self.trades is bound to after the     *)
(* line, for the object obj it was bound to before                         *)
TradesRebound(obj) == "second"

(* The content of the first list when self.trades, bound to obj, holds now *)
EarlierTradesAfter(earlier, obj, now) == IF obj = "first" THEN now ELSE earlier

(* The second call enters backtest_single_pair after the first returned or *)
(* raised: reset, length check                                             *)
EnterSecond ==
    /\ pc = "done"
    /\ other.pc = "idle"
    /\ SetSelf(Fresh)
    /\ \E obj \in {TradesRebound(other.trades_object)} :
          \E o \in {[other EXCEPT !.trades_object = obj,
                                  !.earlier_trades =
                                      EarlierTradesAfter(trades, obj, Fresh.trades)]} :
              other' = IF FLen(other.df) < MIN_INDICATOR_PERIODS
                       THEN [o EXCEPT !.results = ReturnedNone, !.pc = "done"]
                       ELSE [o EXCEPT !.pc = "loop", !.i = MIN_INDICATOR_PERIODS]
    /\ UNCHANGED <<df, pc, i, signal_type, results, all_results, signals, bot_result,
                   error_log, pandas_apply_empty, backtest_result, applied, fleet>>

(* One iteration of the loop of the second call *)
StepSecond ==
    /\ other.pc = "loop"
    /\ other.i < FLen(other.df)
    /\ \E b \in {LoopBody(other.df, Self, other.i)} :
           /\ ~b.raised
           /\ other' = [other EXCEPT !.signal_type = b.signal_type, !.i = @ + 1,
                                     !.earlier_trades =
                                         EarlierTradesAfter(@, other.trades_object,
                                                            b.self.trades)]
           /\ SetSelf(b.self)
    /\ UNCHANGED <<df, pc, i, signal_type, results, all_results, signals, bot_result,
                   error_log, pandas_apply_empty, backtest_result, applied, fleet>>

(* generate_signals raises in the second call *)
StepRaisesSecond ==
    /\ other.pc = "loop"
    /\ other.i < FLen(other.df)
    /\ LoopBody(other.df, Self, other.i).raised
    /\ other' = [other EXCEPT !.results = Propagated, !.pc = "done"]
    /\ error_log' = Append(error_log, "Error backtesting")
    /\ UNCHANGED <<df, pc, i, signal_type, ledger, results, all_results, signals,
                   bot_result, pandas_apply_empty, backtest_result, applied, fleet>>

(* End of the loop of the second call *)
FinishSecond ==
    /\ other.pc = "loop"
    /\ other.i = FLen(other.df)
    /\ \E r \in {_calculate_results(Self, symbol2)} :
           other' = [other EXCEPT !.results = r, !.all_results = (symbol2 :> r),
                                  !.pc = "done"]
    /\ UNCHANGED <<df, pc, i, signal_type, ledger, results, all_results, signals,
                   bot_result, error_log, pandas_apply_empty, backtest_result, applied, fleet>>

NextSequential ==
    \/ Enter \/ Step \/ StepRaises \/ Finish
    \/ EnterSecond \/ StepSecond \/ StepRaisesSecond \/ FinishSecond

SpecSequential == InitSequential /\ [][NextSequential]_vars

(* C29: on a Backtester that has run before, backtest_single_pair resets   *)
(* the ledger first (also when it returns for too little data), its        *)
(* result equals that of a freshly constructed Backtester on the same      *)
(* frame, and the trades list of the report the earlier run returned keeps *)
(* its content through the later run.                                      *)
C29_SequentialReuse ==
    /\ (other.pc = "done" /\ other.results = ReturnedNone) => Self = Fresh
    /\ other.pc = "done" => other.results = Alone(other.df, symbol2)
    /\ (other.pc # "idle" /\ results.kind = "results") =>
          other.earlier_trades = results.trades

(* Both runs traded and both returned a report *)
C29_BothRunsTraded ==
    /\ other.pc = "done"
    /\ results.kind = "results"
    /\ other.results.kind = "results"
    /\ Len(results.trades) > 0
    /\ Len(other.results.trades) > 0
    /\ other.results.trades # results.trades

-----------------------------------------------------------------------------
(* The three callers of the detector, one call each *)

DetectorsBacktestSinglePair ==
    /\ bot_result.kind = "pending"
    /\ backtest_result.kind = "pending"
    /\ Next

DetectorsScanPair ==
    /\ pc = "idle"
    /\ backtest_result.kind = "pending"
    /\ ScanPair

DetectorsBacktestPair ==
    /\ pc = "idle"
    /\ bot_result.kind = "pending"
    /\ BacktestPair

NextDetectors ==
    \/ DetectorsBacktestSinglePair
    \/ DetectorsScanPair
    \/ DetectorsBacktestPair

SpecDetectors == Init /\ [][NextDetectors]_vars

(* Rows k - 1 and k exist and hold defined bands in the columns lo and up *)
BandsDefinedOnPair(f, k, lo, up) ==
    /\ k >= 1 /\ k < FLen(f)
    /\ \A r \in {k - 1, k} : f[lo][r + 1] # NaN /\ f[up][r + 1] # NaN
    /\ k - 1 >= BB_PERIOD - 1

(* C28: in every evaluation of the detector by backtest_single_pair (the   *)
(* slice 0..i of each loop index i), by scan_pair (the fetched frame) and  *)
(* over the index range of backtest_pair's loop on the frame it was       *)
(* called with (the slice 0..i, i from BB_PERIOD + 1), both candles of the *)
(* last pair have defined Bollinger bands, the earlier one at an index     *)
(* >= BB_PERIOD - 1.                                                       *)
C28_BandsDefinedWhenEvaluated ==
    /\ (pc = "loop" /\ i < FLen(df) /\ AllNumeric(Slice(df, i))) =>
          \A f \in {calculate_bollinger_bands(Slice(df, i))} :
              BandsDefinedOnPair(f, i, "BB_LOWER", "BB_UPPER")
    /\ (bot_result.kind = "result" /\ bot_result.error = None) =>
          \A f \in {TradingBot_calculate_bollinger_bands(df)} :
              BandsDefinedOnPair(f, FLen(df) - 1, "bb_lower", "bb_upper")
    /\ (backtest_result.kind = "raised" /\ AllNumeric(df)) =>
          \A f \in {TradingBot_calculate_bollinger_bands(df)} :
              \A k \in (BB_PERIOD + 1)..(FLen(df) - 1) :
                  \A g \in {Slice(f, k)} :
                      BandsDefinedOnPair(g, k, "bb_lower", "bb_upper")

(* scan_pair ran its checks on a frame of exactly BB_PERIOD + 2 candles *)
C28_ScannedAtMinimum ==
    /\ bot_result.kind = "result"
    /\ bot_result.error = None
    /\ FLen(df) = BB_PERIOD + 2

-----------------------------------------------------------------------------
(* Properties of the bot's checks *)

(* The frame on which scan_pair runs its checks *)
BotFrame(d) == TradingBot_calculate_heikin_ashi(TradingBot_calculate_bollinger_bands(d))

(* C22 as stated: check_buy_signal reports a buy when the pair of candles  *)
(* at positions (-3, -2) satisfies the buy rule (red and touching the      *)
(* lower band, then green with body_pct >= 30), also when the last pair    *)
(* (-2, -1) does not.                                                      *)
C22_BuyWithinLastThree ==
    (bot_result.kind = "result" /\ bot_result.error = None /\ FLen(df) >= 3) =>
        (check_buy_signal(Slice(BotFrame(df), FLen(df) - 2)).has_signal
            => bot_result.buy_signal)

(* The signals of the indices k.. of the raw frame d, each from the       *)
(* indicators of the candles 0..k alone                                    *)
RECURSIVE SignalsFromPrefixes(_, _, _)
SignalsFromPrefixes(d, k, acc) ==
    IF k >= FLen(d) THEN acc
    ELSE SignalsFromPrefixes(d, k + 1,
             acc \o SignalsAt(d, k, check_buy_signal(BotFrame(Slice(d, k))),
                                    check_sell_signal(BotFrame(Slice(d, k)))))

(* C25 as stated: backtest_pair on a fetched sequence of at least          *)
(* BB_PERIOD + 2 candles evaluates the two checks at every index           *)
(* i >= BB_PERIOD + 1, and what it records at i equals the checks on the   *)
(* indicators computed from candles 0..i alone.                            *)
C25_SignalsFromPrefixAlone ==
    (/\ backtest_result.kind \notin {"pending", ReturnedNone.kind}
     /\ AllNumeric(df) /\ FLen(df) >= BB_PERIOD + 2) =>
        /\ backtest_result.kind = "result"
        /\ backtest_result.signals = SignalsFromPrefixes(df, BB_PERIOD + 1, <<>>)

-----------------------------------------------------------------------------
(* Properties of the three Heikin-Ashi transforms *)

(* The four smoothed values of every row of the frame h, under the column *)
(* names the transform uses                                                *)
SmoothedValues(h, o, hi, lo, c) ==
    [k \in 1..FLen(h) |-> [open |-> h[o][k], high |-> h[hi][k],
                           low |-> h[lo][k], close |-> h[c][k]]]

(* v holds, at every index, the recurrence over the raw frame d *)
FollowsRecurrence(d, v) ==
    /\ Len(v) = FLen(d)
    /\ \A k \in 1..Len(v) :
          /\ v[k].close = QNorm(d.open[k] + d.high[k] + d.low[k] + d.close[k], 4)
          /\ v[k].open = IF k = 1 THEN QNorm(d.open[1] + d.close[1], 2)
                         ELSE QMean2(v[k - 1].open, v[k - 1].close)
          /\ \A x \in {QInt(d.high[k]), v[k].open, v[k].close} : QLe(x, v[k].high)
          /\ v[k].high \in {QInt(d.high[k]), v[k].open, v[k].close}
          /\ \A x \in {QInt(d.low[k]), v[k].open, v[k].close} : QLe(v[k].low, x)
          /\ v[k].low \in {QInt(d.low[k]), v[k].open, v[k].close}

(* The smoothed values a returned frame holds, by the transform applied *)
AppliedSmoothedValues ==
    IF applied.kind = "heikin_ashi"
    THEN SmoothedValues(applied.out.frame, "HA_OPEN", "HA_HIGH", "HA_LOW", "HA_CLOSE")
    ELSE SmoothedValues(applied.out.frame, "ha_open", "ha_high", "ha_low", "ha_close")

(* C24: on every non-empty sequence of well-formed candles each of the     *)
(* three calculate_heikin_ashi implementations returns, at every index,    *)
(* ha_close = (open + high + low + close) / 4, ha_open[0] =                *)
(* (open[0] + close[0]) / 2, ha_open[i] = (ha_open[i-1] + ha_close[i-1])/2,*)
(* ha_high = max(high, ha_open, ha_close), ha_low = min(low, ha_open,      *)
(* ha_close), and the three return the same four values.                   *)
C24_HeikinAshiRecurrence ==
    (/\ applied.kind \in {"heikin_ashi", "bot_heikin_ashi", "visualizer_heikin_ashi"}
     /\ FLen(df) > 0 /\ AllNumeric(df) /\ WellFormed(df)) =>
        /\ ~applied.out.raised
        /\ \A v \in {AppliedSmoothedValues} :
              /\ FollowsRecurrence(df, v)
              /\ v = SmoothedValues(calculate_heikin_ashi(df),
                                    "HA_OPEN", "HA_HIGH", "HA_LOW", "HA_CLOSE")
              /\ v = SmoothedValues(TradingBot_calculate_heikin_ashi(df),
                                    "ha_open", "ha_high", "ha_low", "ha_close")
              /\ v = SmoothedValues(SignalVisualizer_calculate_heikin_ashi(df),
                                    "ha_open", "ha_high", "ha_low", "ha_close")

(* The visualizer's transform returned a frame in which a smoothed open    *)
(* lies above the raw high of its candle                                   *)
C24_VisualizerOpenAboveHigh ==
    /\ applied.kind = "visualizer_heikin_ashi"
    /\ ~applied.out.raised
    /\ \E k \in 2..FLen(df) :
          QGt(applied.out.frame["ha_open"][k], QInt(df.high[k]))

(* C26: on every smoothed candle calculate_heikin_ashi produces, HA_LOW   *)
(* <= min(HA_OPEN, HA_CLOSE) and HA_HIGH >= max(HA_OPEN, HA_CLOSE), and    *)
(* check_bb_touch (HA_LOW, resp. HA_HIGH, against the band) answers as     *)
(* TradingBot's wick-or-body test on the same candle and band.             *)
C26_WickBoundsBody ==
    applied.kind = "candle" =>
        /\ QLe(applied.candle["HA_LOW"], applied.candle["HA_OPEN"])
        /\ QLe(applied.candle["HA_LOW"], applied.candle["HA_CLOSE"])
        /\ QLe(applied.candle["HA_OPEN"], applied.candle["HA_HIGH"])
        /\ QLe(applied.candle["HA_CLOSE"], applied.candle["HA_HIGH"])
        /\ applied.check_bb_touch_lower = applied.touches_or_breaks_lower_bb
        /\ applied.check_bb_touch_upper = applied.touches_or_breaks_upper_bb

(* A smoothed candle whose close is at or below the lower band: the body  *)
(* alone touches, and check_bb_touch answers True                          *)
C26_BodyBelowLowerBand ==
    /\ applied.kind = "candle"
    /\ LeBand(applied.candle["HA_CLOSE"], applied.candle["BB_LOWER"])
    /\ applied.check_bb_touch_lower

-----------------------------------------------------------------------------
(* The band-touch tests on argument values *)

(* Prices around a band, as in test_signals.test_bb_touch_detection *)
TouchValues == {95, 96, 97, 98}

(* A band value that is the number b *)
BandAt(b) == Surd(QInt(b), Q0, 1)

TouchArguments ==
    [kind : {"touch_arguments"}, ha_low : TouchValues, ha_high : TouchValues,
     ha_close : TouchValues, bb_lower : TouchValues, bb_upper : TouchValues]

InitTouch ==
    /\ df = FrameOf(<<>>)
    /\ other = Idle(FrameOf(<<>>))
    /\ pc = "idle"
    /\ i = 0
    /\ signal_type = None
    /\ capital = Fresh.capital
    /\ position = Fresh.position
    /\ position_size = Fresh.position_size
    /\ entry_price = Fresh.entry_price
    /\ trades = Fresh.trades
    /\ results = Pending
    /\ all_results = <<>>
    /\ signals = Pending
    /\ bot_result = Pending
    /\ error_log = <<>>
    /\ pandas_apply_empty = "frame"
    /\ backtest_result = Pending
    /\ fleet = [fetch |-> Pending, signals |-> Pending, bot |-> Pending]
    /\ applied \in TouchArguments

(* The row check_bb_touch reads, for the argument values a *)
TouchRow(a) ==
    [HA_LOW |-> QInt(a.ha_low), HA_HIGH |-> QInt(a.ha_high),
     HA_CLOSE |-> QInt(a.ha_close),
     BB_LOWER |-> BandAt(a.bb_lower), BB_UPPER |-> BandAt(a.bb_upper)]

TouchTests(a, row) ==
    [kind |-> "touch", arguments |-> a,
     check_bb_touch_lower |-> check_bb_touch(row, "lower"),
     check_bb_touch_upper |-> check_bb_touch(row, "upper"),
     touches_or_breaks_lower_bb |->
         touches_or_breaks_lower_bb(row["HA_LOW"], row["HA_CLOSE"], row["BB_LOWER"]),
     touches_or_breaks_upper_bb |->
         touches_or_breaks_upper_bb(row["HA_HIGH"], row["HA_CLOSE"], row["BB_UPPER"])]

ApplyTouchTests ==
    /\ applied.kind = "touch_arguments"
    /\ applied' = TouchTests(applied, TouchRow(applied))
    /\ UNCHANGED <<df, pc, i, signal_type, ledger, results, all_results, signals,
                   bot_result, error_log, pandas_apply_empty, backtest_result, other, fleet>>

NextTouch == ApplyTouchTests

SpecTouch == InitTouch /\ [][NextTouch]_vars

(* C23 as stated: every band-touch predicate is wick-or-body and           *)
(* inclusive, for all argument values: the lower band is touched iff       *)
(* low <= bb_lower or close <= bb_lower, the upper band iff                *)
(* high >= bb_upper or close >= bb_upper.                                  *)
C23_TouchIsWickOrBody ==
    applied.kind = "touch" =>
        LET a == applied.arguments
            lower == a.ha_low <= a.bb_lower \/ a.ha_close <= a.bb_lower
            upper == a.ha_high >= a.bb_upper \/ a.ha_close >= a.bb_upper
        IN  /\ applied.touches_or_breaks_lower_bb = lower
            /\ applied.touches_or_breaks_upper_bb = upper
            /\ applied.check_bb_touch_lower = lower
            /\ applied.check_bb_touch_upper = upper

(* The part of C23 that TradingBot's two predicates satisfy *)
TradingBotTouchIsWickOrBody ==
    applied.kind = "touch" =>
        LET a == applied.arguments
        IN  /\ applied.touches_or_breaks_lower_bb
                  = (a.ha_low <= a.bb_lower \/ a.ha_close <= a.bb_lower)
            /\ applied.touches_or_breaks_upper_bb
                  = (a.ha_high >= a.bb_upper \/ a.ha_close >= a.bb_upper)


=============================================================================
